---- MODULE Spec2Model ----
(***************************************************************************)
(* Tracker-assisted peer-to-peer file sharing: the piece manager           *)
(* (piece_manager.py), the tracker (tracker_server.py) and the peer node   *)
(* (peer.py).                                                              *)
(*                                                                         *)
(* Python dicts keep insertion order, and the code depends on it (ties in  *)
(* get_rarest_piece, the order of a listing, the order a directory is      *)
(* scanned in), so a dict is a sequence of [k, v] records with distinct k. *)
(* A text string that the code splits on ":" is the tuple of its fields:   *)
(* "h1:8000" is <<"h1", "8000">> and the bare host "h1" is <<"h1">>.       *)
(***************************************************************************)
EXTENDS Integers, Sequences, FiniteSets, TLC

\* ------------------------------------------------------------------ bounds
TotalPieces == 2
MaxCount == 2
NConns == 2
MaxMsgs == 2
MaxUploads == 2
NHandlers == 3

\* Python's None where a piece number is expected.
None == -1

\* Piece numbers a peer may advertise or a caller may pass: [1,total_pieces]
\* and one index beyond it.
PieceInputs == 1..(TotalPieces + 1)

VARIABLES
    available_pieces,   \* PieceManager.available_pieces: dict piece -> count
    missing_pieces,     \* PieceManager.missing_pieces: set of piece numbers
    rarest_piece,       \* the value the latest get_rarest_piece call returned
    pm_marked           \* history: every piece_number passed to mark_piece_complete

VARIABLES
    peers,              \* Tracker.peers: dict address -> list of chunk numbers
    peer_connections,   \* Tracker.peer_connections: dict address -> socket
    h_pc,               \* per connection: where its handle_peer thread stands
    h_loc,              \* per connection: the locals of its handle_peer thread
    client_state,       \* per connection: "open", "closed" (the peer closed it)
                        \* or "reset" (sends on it raise)
    sock_closed,        \* the sockets the tracker has closed (client_socket.close())
    last_send,          \* the send() call made by the latest step, if any
    registry,           \* history: per address, the connection and the list of
                        \* its latest registration, until the record is deleted
    n_recv              \* history: the number of messages received so far

VARIABLES
    role,               \* how the Peer was constructed: "seeder" (file_to_share),
                        \* "leecher" (torrent_metadata_path) or "bare" (neither)
    n_pc,               \* where the thread running Peer.start stands
    n_loc,              \* the locals of that thread
    peer_port,          \* Peer.peer_port
    total_chunks,       \* Peer.total_chunks
    has_pm,             \* Peer.piece_manager is not None
    peer_chunks,        \* Peer.peer_chunks: dict chunk number -> payload
    received_chunks,    \* Peer.received_chunks
    disk,               \* the chunk files written by save_chunk_to_disk
    tracker_peers,      \* Peer.tracker_peers: dict address -> list of chunks
    uploaded_chunks,    \* Peer.uploaded_chunks: dict requester -> count
    top_peers,          \* Peer.top_peers
    optimistic_peer,    \* Peer.optimistic_peer
    refreshed,          \* history: update_top_peers was the latest step
    l_pc,               \* per inbound connection: where handle_chunk_request stands
    l_loc,              \* per inbound connection: its locals
    listen_thread,      \* the thread running listen_for_requests: where it
                        \* stands, its listen_port and its tries
    requested           \* history: the chunk requests the node has issued

pm_vars == <<available_pieces, missing_pieces, rarest_piece, pm_marked>>

tracker_vars == <<peers, peer_connections, h_pc, h_loc, client_state, sock_closed,
                  last_send, registry, n_recv>>

choke_vars == <<top_peers, optimistic_peer, refreshed>>

listener_vars == <<l_pc, l_loc, listen_thread>>

main_vars == <<role, n_pc, n_loc, peer_port, total_chunks, has_pm, received_chunks,
               disk, requested>>

node_vars == <<main_vars, peer_chunks, tracker_peers, uploaded_chunks, choke_vars,
               listener_vars>>

\* What a tracker step and a PieceManager call leave alone.
outside_tracker == <<pm_vars, node_vars>>

outside_pm == <<tracker_vars, node_vars>>

vars == <<pm_vars, tracker_vars, node_vars>>

\* ------------------------------------------------------------ dict helpers
DictKeys(d) == {d[i].k : i \in 1..Len(d)}

DictHas(d, key) == \E i \in 1..Len(d) : d[i].k = key

DictGet(d, key) == d[CHOOSE i \in 1..Len(d) : d[i].k = key].v

\* d.get(key, default)
DictGetOr(d, key, default) == IF DictHas(d, key) THEN DictGet(d, key) ELSE default

\* Variant: an assignment that always adds an entry (a list append).
DictSet_Append(d, key, value) == Append(d, [k |-> key, v |-> value])

\* d[key] = value: an existing key keeps its position, a new key goes last.
DictSet(d, key, value) ==
    IF DictHas(d, key)
    THEN [i \in 1..Len(d) |-> IF d[i].k = key THEN [k |-> key, v |-> value] ELSE d[i]]
    ELSE Append(d, [k |-> key, v |-> value])

\* del d[key]
DictDel(d, key) == SelectSeq(d, LAMBDA e : e.k # key)

\* ------------------------------------------------------------------- text
\* A message is the sequence of its lines (split on "\n"), a line or a
\* space-separated part the sequence of its ': '-separated fields, a field the
\* sequence of its ':'- or ','-separated tokens.
DigitStr == <<"0", "1", "2", "3", "4", "5", "6", "7", "8", "9">>

\* str(n), for a digit and for the port number
StrOfInt(n) == IF n = 8000 THEN "8000" ELSE DigitStr[n + 1]

\* int(x) succeeds
IsIntStr(t) == t = "8000" \/ \E n \in 0..9 : DigitStr[n + 1] = t

\* int(x)
IntOfStr(t) == IF t = "8000" THEN 8000 ELSE CHOOSE n \in 0..9 : DigitStr[n + 1] = t

\* A one-line, one-field message such as "PEER_ADDED".
Word(w) == << << <<w>> >> >>

\* "": what "\n".join([]) gives.
EmptyText == Word("")

NoPeersText == Word("NO_PEERS")

\* ','.join(map(str, chunks))
JoinChunks(chunks) ==
    IF chunks = <<>> THEN <<"">> ELSE [j \in 1..Len(chunks) |-> StrOfInt(chunks[j])]

\* Variant: a listing of the first record only.
FormatListing_FirstOnly(table) ==
    IF table = <<>> THEN EmptyText
    ELSE << <<table[1].k, JoinChunks(table[1].v)>> >>

\* "\n".join([f"{peer}: {','.join(map(str, chunks))}" for peer, chunks in
\* self.peers.items()])
FormatListing(table) ==
    IF table = <<>> THEN EmptyText
    ELSE [i \in 1..Len(table) |-> <<table[i].k, JoinChunks(table[i].v)>>]

\* ---------------------------------------------------------------- Tracker
Conns == 1..NConns

\* addr[0] of an accepted connection: every peer runs on the tracker's host
\* (TRACKER_HOST = '127.0.0.1').
ConnHost(c) == <<"h1">>

\* The addresses a peer may give in ADD_PEER: host:port as peer.py sends it, and
\* a bare host.
RegAddrs == {<<"h1">>, <<"h1", "8000">>}

\* The chunk parts of an ADD_PEER: none, the empty part peer.py sends for a
\* leecher ("ADD_PEER ip:port "), numbers, and a part that is no number.
ChunkParts == {<<>>, << <<"">> >>, << <<"1">>, <<"2">> >>, << <<"x">> >>}

AddPeerData ==
    {<< <<"ADD_PEER">> >>}
      \cup {<< <<"ADD_PEER">>, a >> \o parts : a \in RegAddrs, parts \in ChunkParts}

\* What recv(1024).decode() may give, split on " ".
TrackerData ==
    AddPeerData \cup {<< <<"REQUEST_PEERS">> >>, << <<"REMOVE_PEER">> >>, << <<"HELLO">> >>}

\* add_peer: parts[1] exists and every non-empty chunk part is an integer.
AddPeerParses(data) ==
    /\ Len(data) >= 2
    /\ \A j \in 3..Len(data) :
          data[j] # <<"">> => Len(data[j]) = 1 /\ IsIntStr(data[j][1])

\* add_peer: chunks = [int(x) for x in parts[2:] if x.strip()], or [] when no
\* part after the address is non-empty.
AddPeerChunks(data) ==
    LET given == SelectSeq(SubSeq(data, 3, Len(data)), LAMBDA x : x # <<"">>)
    IN  [j \in 1..Len(given) |-> IntOfStr(given[j][1])]

\* The locals of a handle_peer thread; error records that an exception was
\* raised in the handling of the current message.
NoLoc == [final |-> FALSE, data |-> <<>>, peer_ip |-> <<>>, chunks |-> <<>>,
          is_new |-> FALSE, peer_list |-> <<>>, listed |-> <<>>,
          iter |-> 0, size |-> 0, own |-> {}, audience |-> {}, sent |-> {},
          failed |-> {}, targets |-> <<>>, error |-> FALSE]

NoSend == [by |-> 0, to |-> 0, kind |-> "none", msg |-> <<>>, ok |-> FALSE,
           listed |-> <<>>, peer_ip |-> <<>>, is_new |-> FALSE, own |-> {}]

\* old: <<>> when the latest registration inserted the record, else the
\* 1-tuple of the list it replaced; conns: the connections the address was
\* registered over; acked: the acknowledgment of the latest registration was
\* sent.
NotRegistered == [conn |-> 0, chunks |-> <<>>, old |-> <<>>, conns |-> {},
                  acked |-> FALSE]

\* Tracker.__init__
InitTracker ==
    /\ peers = <<>>
    /\ peer_connections = <<>>
    /\ h_pc = [c \in Conns |-> "idle"]
    /\ h_loc = [c \in Conns |-> NoLoc]
    /\ client_state = [c \in Conns |-> "open"]
    /\ sock_closed = {}
    /\ last_send = NoSend
    /\ registry = [a \in RegAddrs |-> NotRegistered]
    /\ n_recv = 0

\* socket.send on socket s: it succeeds while the tracker has not closed s and
\* no send on s has raised yet (what is sent to a peer that has closed is lost),
\* and raises on a socket the tracker closed or whose peer is gone.
SendMay(s, ok) ==
    IF ok THEN s \notin sock_closed /\ client_state[s] \in {"open", "closed"}
    ELSE s \in sock_closed \/ client_state[s] \in {"closed", "reset"}

Send(c, s, kind, msg, ok) ==
    /\ SendMay(s, ok)
    /\ client_state' = IF ~ok /\ s \notin sock_closed
                       THEN [client_state EXCEPT ![s] = "reset"] ELSE client_state
    /\ last_send' = [by |-> c, to |-> s, kind |-> kind, msg |-> msg, ok |-> ok,
                     listed |-> h_loc[c].listed, peer_ip |-> h_loc[c].peer_ip,
                     is_new |-> h_loc[c].is_new, own |-> h_loc[c].own]

NoSendStep == last_send' = NoSend /\ UNCHANGED client_state

Goto(c, pc) == h_pc' = [h_pc EXCEPT ![c] = pc]

\* Tracker.start: accept() and the start of the connection's handle_peer thread.
Accept(c) ==
    /\ h_pc[c] = "idle"
    /\ Goto(c, "recv")
    /\ NoSendStep
    /\ UNCHANGED <<peers, peer_connections, h_loc, sock_closed, registry, n_recv>>
    /\ UNCHANGED outside_tracker

\* The peer closes its end of the connection.
ClientClose(c) ==
    /\ h_pc[c] \notin {"idle", "done"}
    /\ client_state[c] = "open"
    /\ client_state' = [client_state EXCEPT ![c] = "closed"]
    /\ last_send' = NoSend
    /\ UNCHANGED <<peers, peer_connections, h_pc, h_loc, sock_closed, registry, n_recv>>
    /\ UNCHANGED outside_tracker

\* handle_peer: recv() gives a message, and the if/elif chain picks the branch.
Recv(c, data) ==
    /\ h_pc[c] = "recv"
    /\ client_state[c] = "open"
    /\ n_recv < MaxMsgs
    /\ n_recv' = n_recv + 1
    /\ h_loc' = [h_loc EXCEPT ![c] =
                     [NoLoc EXCEPT !.data = IF data[1] = <<"ADD_PEER">> THEN data ELSE <<>>]]
    /\ Goto(c, IF data = << <<"REQUEST_PEERS">> >> THEN "list"
               ELSE IF data[1] = <<"ADD_PEER">> THEN "add_parse"
               ELSE IF data[1] = <<"REMOVE_PEER">> THEN "rm_check"
               ELSE "recv")
    /\ NoSendStep
    /\ UNCHANGED <<peers, peer_connections, sock_closed, registry>>
    /\ UNCHANGED outside_tracker

\* handle_peer: recv() gives no data (break) or raises; both lead to finally.
RecvEnd(c) ==
    /\ h_pc[c] = "recv"
    /\ client_state[c] # "open"
    /\ h_loc' = [h_loc EXCEPT ![c] = [NoLoc EXCEPT !.error = (client_state[c] = "reset")]]
    /\ Goto(c, "close")
    /\ NoSendStep
    /\ UNCHANGED <<peers, peer_connections, sock_closed, registry, n_recv>>
    /\ UNCHANGED outside_tracker

\* send_peers_list: peer_list is the listing, or NO_PEERS for an empty table.
ListCompute(c) ==
    /\ h_pc[c] = "list"
    /\ h_loc' = [h_loc EXCEPT ![c].peer_list =
                     IF peers # <<>> THEN FormatListing(peers) ELSE NoPeersText,
                                 ![c].listed = peers]
    /\ Goto(c, "list_send")
    /\ NoSendStep
    /\ UNCHANGED <<peers, peer_connections, sock_closed, registry, n_recv>>
    /\ UNCHANGED outside_tracker

\* send_peers_list: client_socket.send(peer_list); an exception is only printed.
ListSend(c, ok) ==
    /\ h_pc[c] = "list_send"
    /\ Send(c, c, "reply", h_loc[c].peer_list, ok)
    /\ h_loc' = [h_loc EXCEPT ![c] = NoLoc]
    /\ Goto(c, "recv")
    /\ UNCHANGED <<peers, peer_connections, sock_closed, registry, n_recv>>
    /\ UNCHANGED outside_tracker

\* Variant: the address is stored before the chunk parts are parsed, so a part
\* that is no integer leaves a record behind.
AddParse_StoreFirst(c) ==
    /\ h_pc[c] = "add_parse"
    /\ IF AddPeerParses(h_loc[c].data)
       THEN /\ h_loc' = [h_loc EXCEPT ![c].peer_ip = h_loc[c].data[2],
                                      ![c].chunks = AddPeerChunks(h_loc[c].data),
                                      ![c].is_new = ~DictHas(peers, h_loc[c].data[2]),
                                      ![c].data = <<>>]
            /\ Goto(c, "add_set")
            /\ UNCHANGED peers
       ELSE /\ Goto(c, "add_error")
            /\ h_loc' = [h_loc EXCEPT ![c] = [NoLoc EXCEPT !.error = TRUE]]
            /\ peers' = (IF Len(h_loc[c].data) >= 2
                         THEN DictSet(peers, h_loc[c].data[2], <<>>) ELSE peers)
    /\ NoSendStep
    /\ UNCHANGED <<peer_connections, sock_closed, registry, n_recv>>
    /\ UNCHANGED outside_tracker

\* add_peer: the parse of the message and the test `peer_ip not in self.peers`.
AddParse(c) ==
    /\ h_pc[c] = "add_parse"
    /\ IF AddPeerParses(h_loc[c].data)
       THEN /\ h_loc' = [h_loc EXCEPT ![c].peer_ip = h_loc[c].data[2],
                                      ![c].chunks = AddPeerChunks(h_loc[c].data),
                                      ![c].is_new = ~DictHas(peers, h_loc[c].data[2]),
                                      ![c].data = <<>>]
            /\ Goto(c, "add_set")
       ELSE /\ Goto(c, "add_error")
            /\ h_loc' = [h_loc EXCEPT ![c] = [NoLoc EXCEPT !.error = TRUE]]
    /\ NoSendStep
    /\ UNCHANGED <<peers, peer_connections, sock_closed, registry, n_recv>>
    /\ UNCHANGED outside_tracker

\* add_peer: self.peers[peer_ip] = chunks (either branch).
AddSetPeers(c) ==
    /\ h_pc[c] = "add_set"
    /\ peers' = DictSet(peers, h_loc[c].peer_ip, h_loc[c].chunks)
    /\ registry' = [registry EXCEPT ![h_loc[c].peer_ip] =
                        [conn |-> c, chunks |-> h_loc[c].chunks,
                         old |-> IF DictHas(peers, h_loc[c].peer_ip)
                                 THEN <<DictGet(peers, h_loc[c].peer_ip)>> ELSE <<>>,
                         conns |-> registry[h_loc[c].peer_ip].conns \cup {c},
                         acked |-> FALSE]]
    /\ h_loc' = [h_loc EXCEPT ![c].audience = DictKeys(peers) \cup {h_loc[c].peer_ip}]
    /\ Goto(c, IF h_loc[c].is_new THEN "add_conn" ELSE "add_ack")
    /\ NoSendStep
    /\ UNCHANGED <<peer_connections, sock_closed, n_recv>>
    /\ UNCHANGED outside_tracker

\* add_peer: self.peer_connections[peer_ip] = client_socket (new address only).
AddSetConn(c) ==
    /\ h_pc[c] = "add_conn"
    /\ peer_connections' = DictSet(peer_connections, h_loc[c].peer_ip, c)
    /\ Goto(c, "add_ack")
    /\ NoSendStep
    /\ UNCHANGED <<peers, h_loc, sock_closed, registry, n_recv>>
    /\ UNCHANGED outside_tracker

\* Variant: the same acknowledgment on both branches.
AckText_AlwaysAdded(is_new) == Word("PEER_ADDED")

AckText(is_new) == IF is_new THEN Word("PEER_ADDED") ELSE Word("PEER_UPDATED")

\* add_peer: the acknowledgment; if send raises, the except clause runs.
AddAck(c, ok) ==
    /\ h_pc[c] = "add_ack"
    /\ Send(c, c, "ack", AckText(h_loc[c].is_new), ok)
    /\ Goto(c, IF ok THEN "bcast" ELSE "add_error")
    /\ registry' = IF ok /\ registry[h_loc[c].peer_ip].conn = c
                   THEN [registry EXCEPT ![h_loc[c].peer_ip].acked = TRUE]
                   ELSE registry
    /\ h_loc' = [h_loc EXCEPT ![c].error = ~ok]
    /\ UNCHANGED <<peers, peer_connections, sock_closed, n_recv>>
    /\ UNCHANGED outside_tracker

\* add_peer: except clause, client_socket.send("ERROR"); if that raises too the
\* exception leaves add_peer and handle_peer's loop.
AddError(c, ok) ==
    /\ h_pc[c] = "add_error"
    /\ Send(c, c, "ack", Word("ERROR"), ok)
    /\ Goto(c, IF ok THEN "bcast" ELSE "close")
    /\ UNCHANGED <<peers, peer_connections, h_loc, sock_closed, registry, n_recv>>
    /\ UNCHANGED outside_tracker

\* broadcast_peer_list: peer_list is the listing (no NO_PEERS here).
BcastCompute(c) ==
    /\ h_pc[c] = "bcast"
    /\ h_loc' = [h_loc EXCEPT ![c].peer_list = FormatListing(peers),
                              ![c].listed = peers]
    /\ Goto(c, "bcast_start")
    /\ NoSendStep
    /\ UNCHANGED <<peers, peer_connections, sock_closed, registry, n_recv>>
    /\ UNCHANGED outside_tracker

\* broadcast_peer_list: the iterator over self.peer_connections.items().
BcastStart(c) ==
    /\ h_pc[c] = "bcast_start"
    /\ h_loc' = [h_loc EXCEPT ![c].iter = 1, ![c].size = Len(peer_connections),
                              ![c].targets = peer_connections]
    /\ Goto(c, "bcast_iter")
    /\ NoSendStep
    /\ UNCHANGED <<peers, peer_connections, sock_closed, registry, n_recv>>
    /\ UNCHANGED outside_tracker

\* Variant: the try around the whole loop, so that a failed send ends it.
AfterBroadcastSend_StopOnFailure(ok) == IF ok THEN "bcast_iter" ELSE "recv"

\* broadcast_peer_list: the try/except is inside the loop, so the loop goes on
\* after a send whether it raised or not.
AfterBroadcastSend(ok) == "bcast_iter"

\* broadcast_peer_list: one turn of the loop.  The iterator raises RuntimeError
\* (outside the loop's try) when the dict changed size since it was created;
\* a send that raises is only printed.
BcastNext(c, ok) ==
    /\ h_pc[c] = "bcast_iter"
    /\ IF Len(peer_connections) # h_loc[c].size
       THEN /\ Goto(c, "close")
            /\ h_loc' = [h_loc EXCEPT ![c] = [NoLoc EXCEPT !.error = TRUE]]
            /\ ok
            /\ NoSendStep
       ELSE IF h_loc[c].iter > Len(peer_connections)
       THEN /\ Goto(c, "recv")
            /\ h_loc' = [h_loc EXCEPT ![c] = NoLoc]
            /\ ok
            /\ NoSendStep
       ELSE /\ Send(c, peer_connections[h_loc[c].iter].v, "broadcast",
                    h_loc[c].peer_list, ok)
            /\ h_loc' = [h_loc EXCEPT
                   ![c].iter = h_loc[c].iter + 1,
                   ![c].sent = IF ok THEN h_loc[c].sent \cup
                                              {peer_connections[h_loc[c].iter].v}
                               ELSE h_loc[c].sent,
                   ![c].failed = IF ok THEN h_loc[c].failed
                                 ELSE h_loc[c].failed \cup
                                          {peer_connections[h_loc[c].iter].v}]
            /\ Goto(c, AfterBroadcastSend(ok))
    /\ UNCHANGED <<peers, peer_connections, sock_closed, registry, n_recv>>
    /\ UNCHANGED outside_tracker

\* handle_peer: finally, client_socket.close(); remove_peer(None, addr) follows.
Close(c) ==
    /\ h_pc[c] = "close"
    /\ sock_closed' = sock_closed \cup {c}
    /\ h_loc' = [h_loc EXCEPT ![c] = [NoLoc EXCEPT !.final = TRUE,
                                                  !.error = h_loc[c].error]]
    /\ Goto(c, "rm_check")
    /\ NoSendStep
    /\ UNCHANGED <<peers, peer_connections, registry, n_recv>>
    /\ UNCHANGED outside_tracker

\* The host:port addresses whose latest registration came over connection c
\* (own, in the locals of a handler that runs remove_peer, records them).
RegisteredOver(c) == {a \in RegAddrs : Len(a) = 2 /\ registry[a].conn = c}

\* remove_peer: peer_ip = addr[0] and the test `peer_ip in self.peers`.
RmCheck(c) ==
    /\ h_pc[c] = "rm_check"
    /\ h_loc' = [h_loc EXCEPT ![c].peer_ip = ConnHost(c),
                              ![c].own = RegisteredOver(c)]
    /\ Goto(c, IF DictHas(peers, ConnHost(c)) THEN "rm_del_peers" ELSE "rm_reply")
    /\ NoSendStep
    /\ UNCHANGED <<peers, peer_connections, sock_closed, registry, n_recv>>
    /\ UNCHANGED outside_tracker

\* Where remove_peer returns to: the broadcast after REMOVE_PEER, or the end of
\* the thread after finally.
AfterRemove(c) == IF h_loc[c].final THEN "done" ELSE "bcast"

\* remove_peer: del self.peers[peer_ip]; a KeyError (another thread deleted it
\* first) is only printed.
RmDelPeers(c) ==
    /\ h_pc[c] = "rm_del_peers"
    /\ IF DictHas(peers, h_loc[c].peer_ip)
       THEN /\ peers' = DictDel(peers, h_loc[c].peer_ip)
            /\ registry' = [registry EXCEPT ![h_loc[c].peer_ip] = NotRegistered]
            /\ Goto(c, "rm_del_conn")
       ELSE /\ Goto(c, AfterRemove(c))
            /\ UNCHANGED <<peers, registry, n_recv>>
    /\ NoSendStep
    /\ UNCHANGED <<peer_connections, h_loc, sock_closed, n_recv>>
    /\ UNCHANGED outside_tracker

\* remove_peer: if peer_ip in self.peer_connections: del it.
RmDelConn(c) ==
    /\ h_pc[c] = "rm_del_conn"
    /\ peer_connections' = DictDel(peer_connections, h_loc[c].peer_ip)
    /\ h_loc' = [h_loc EXCEPT ![c].is_new = TRUE]
    /\ Goto(c, "rm_reply")
    /\ NoSendStep
    /\ UNCHANGED <<peers, sock_closed, registry, n_recv>>
    /\ UNCHANGED outside_tracker

\* remove_peer: PEER_REMOVED or PEER_NOT_FOUND when a client_socket was given;
\* a send that raises is only printed.
RmReply(c, ok) ==
    /\ h_pc[c] = "rm_reply"
    /\ IF h_loc[c].final
       THEN ok /\ NoSendStep
       ELSE Send(c, c, "rm_ack",
                 IF h_loc[c].is_new THEN Word("PEER_REMOVED")
                 ELSE Word("PEER_NOT_FOUND"), ok)
    /\ Goto(c, AfterRemove(c))
    /\ h_loc' = [h_loc EXCEPT ![c] = NoLoc]
    /\ UNCHANGED <<peers, peer_connections, sock_closed, registry, n_recv>>
    /\ UNCHANGED outside_tracker

NextTracker ==
    \E c \in Conns :
        \/ Accept(c)
        \/ ClientClose(c)
        \/ \E data \in TrackerData : Recv(c, data)
        \/ RecvEnd(c)
        \/ ListCompute(c)
        \/ \E ok \in BOOLEAN : ListSend(c, ok)
        \/ AddParse(c)
        \/ AddSetPeers(c)
        \/ AddSetConn(c)
        \/ \E ok \in BOOLEAN : AddAck(c, ok)
        \/ \E ok \in BOOLEAN : AddError(c, ok)
        \/ BcastCompute(c)
        \/ BcastStart(c)
        \/ \E ok \in BOOLEAN : BcastNext(c, ok)
        \/ Close(c)
        \/ RmCheck(c)
        \/ RmDelPeers(c)
        \/ RmDelConn(c)
        \/ \E ok \in BOOLEAN : RmReply(c, ok)


\* ------------------------------------------------------------ PieceManager
\* PieceManager.__init__
PieceManagerInit(total) ==
    /\ available_pieces = <<>>
    /\ missing_pieces = 1..total

\* Variant: available_pieces[piece] = 1, the count is set and not added to.
RECURSIVE UpdateAvail_Set(_, _)
UpdateAvail_Set(avail, chunk_list) ==
    IF chunk_list = <<>> THEN avail
    ELSE UpdateAvail_Set(DictSet(avail, Head(chunk_list), 1), Tail(chunk_list))

\* update_available_pieces: available_pieces[piece] += 1 for each piece of the
\* list, on a defaultdict(int).
RECURSIVE UpdateAvail(_, _)
UpdateAvail(avail, chunk_list) ==
    IF chunk_list = <<>> THEN avail
    ELSE UpdateAvail(DictSet(avail, Head(chunk_list),
                             DictGetOr(avail, Head(chunk_list), 0) + 1),
                     Tail(chunk_list))

\* Variant: count <= min_count, so that a later item of equal count wins.
RECURSIVE RarestScan_LastTied(_, _, _, _, _, _)
RarestScan_LastTied(avail, missing, i, inf, min_count, rarest) ==
    IF i > Len(avail) THEN rarest
    ELSE IF avail[i].k \in missing /\ (inf \/ avail[i].v <= min_count)
         THEN RarestScan_LastTied(avail, missing, i + 1, FALSE, avail[i].v, avail[i].k)
         ELSE RarestScan_LastTied(avail, missing, i + 1, inf, min_count, rarest)

\* The loop of get_rarest_piece over available_pieces.items(), from item i on;
\* inf is TRUE while min_count is still float('inf').
RECURSIVE RarestScan(_, _, _, _, _, _)
RarestScan(avail, missing, i, inf, min_count, rarest) ==
    IF i > Len(avail) THEN rarest
    ELSE IF avail[i].k \in missing /\ (inf \/ avail[i].v < min_count)
         THEN RarestScan(avail, missing, i + 1, FALSE, avail[i].v, avail[i].k)
         ELSE RarestScan(avail, missing, i + 1, inf, min_count, rarest)

\* Variant: the scan without its membership test (every advertised index is a
\* candidate).
GetRarestPiece_NoMissingTest(avail, missing) ==
    RarestScan(avail, DictKeys(avail) \cup missing, 1, TRUE, 0, None)

GetRarestPieceOf(avail, missing) == RarestScan(avail, missing, 1, TRUE, 0, None)

get_rarest_piece == GetRarestPieceOf(available_pieces, missing_pieces)

\* Variant: remove() semantics turned into a toggle (a second call puts the
\* index back).
MarkComplete_Toggle(missing, piece_number) ==
    IF piece_number \in missing THEN missing \ {piece_number}
    ELSE missing \cup {piece_number}

\* Variant: the index is not taken out of the set.
MarkComplete_Keeps(missing, piece_number) == missing

\* mark_piece_complete: missing_pieces.discard(piece_number)
MarkCompleteOf(missing, piece_number) == missing \ {piece_number}

is_complete == Cardinality(missing_pieces) = 0

\* The lists of piece numbers a caller may pass to update_available_pieces:
\* empty, one piece, two pieces (the same one twice included).
ChunkLists ==
    {<<>>} \cup {<<x>> : x \in PieceInputs} \cup {<<x, y>> : x, y \in PieceInputs}

CountsBounded(avail) == \A i \in 1..Len(avail) : avail[i].v <= MaxCount

\* ----------------------------------------------- PieceManager driven alone
update_available_pieces(chunk_list) ==
    /\ LET updated == UpdateAvail(available_pieces, chunk_list)
       IN  CountsBounded(updated) /\ available_pieces' = updated
    /\ UNCHANGED <<missing_pieces, rarest_piece, pm_marked>>
    /\ UNCHANGED outside_pm

mark_piece_complete(piece_number) ==
    /\ missing_pieces' = MarkCompleteOf(missing_pieces, piece_number)
    /\ pm_marked' = pm_marked \cup {piece_number}
    /\ UNCHANGED <<available_pieces, rarest_piece>>
    /\ UNCHANGED outside_pm

CallGetRarestPiece ==
    /\ rarest_piece' = get_rarest_piece
    /\ UNCHANGED <<available_pieces, missing_pieces, pm_marked>>
    /\ UNCHANGED outside_pm

\* -------------------------------------------------------------- Peer node
\* Python's None where an address is expected, and where a port is expected.
NoAddr == <<>>

NoPort == None

\* listen_port = getattr(self, 'listen_port', 8000)
ListenPort == 8000

\* MIN_PEERS_REQUIRED
MIN_PEERS_REQUIRED == 2

\* self.top_peers keeps sorted_peers[:4]
TopN == 4

InConns == 1..NConns

\* The threads listen_for_requests may start, one per accepted connection.
Handlers == 1..NHandlers

\* The locals of Peer.start's thread: the chunk numbers prepare_file_chunks has
\* still to store, whether its query of the tracker went through (queried) and
\* the peer_list it received, rarest_piece, the position of the scan of
\* tracker_peers, the chunk_data the last request_chunk_from_peer received ("" if
\* it received nothing) and the success it returned; seen is history: for every
\* piece number, how many times it stood in a peer's chunk list in the listings
\* register_with_tracker has stored so far.
NoNLoc == [to_add |-> <<>>, queried |-> FALSE, peer_list |-> <<>>,
           rarest |-> None, iter |-> 0, chunk_data |-> "", success |-> FALSE,
           seen |-> [p \in PieceInputs |-> 0]]

\* The locals of a handle_chunk_request thread; held, replied, reply and wrote
\* record what it found and did.
NoLLoc == [chunk_number |-> None, held |-> FALSE, peer_ip |-> NoAddr, count |-> 0,
           replied |-> FALSE, reply |-> "", wrote |-> FALSE]


\* Peer.__init__, but for the upload ledger and the known peer directory.
PeerInitBut(r) ==
    /\ role = r
    /\ peer_chunks = <<>>
    /\ received_chunks = {}
    /\ total_chunks = (IF r = "leecher" THEN TotalPieces ELSE 0)
    /\ peer_port = NoPort
    /\ top_peers = <<>>
    /\ optimistic_peer = NoAddr
    /\ has_pm = (r = "leecher")
    /\ n_pc = "start"
    /\ n_loc = NoNLoc
    /\ disk = <<>>
    /\ refreshed = FALSE
    /\ l_pc = [c \in Handlers |-> "idle"]
    /\ l_loc = [c \in Handlers |-> NoLLoc]
    /\ listen_thread = [pc |-> "bind", listen_port |-> ListenPort, tries |-> 0]
    /\ requested = {}

\* Peer.__init__
PeerInit(r) ==
    /\ PeerInitBut(r)
    /\ tracker_peers = <<>>
    /\ uploaded_chunks = <<>>

\* ----------------------------------------------------------- choke engine
\* Variant: sorted() without reverse=True (ascending by count).
SortedInsert_Ascending(sorted, e) ==
    LET n == Cardinality({i \in 1..Len(sorted) : sorted[i].v <= e.v})
    IN  SubSeq(sorted, 1, n) \o <<e>> \o SubSeq(sorted, n + 1, Len(sorted))

\* One item placed by sorted(..., key=lambda item: item[1], reverse=True): the
\* sort is stable, so an item goes after the items of greater or equal count
\* that precede it in the dict.
SortedInsert(sorted, e) ==
    LET n == Cardinality({i \in 1..Len(sorted) : sorted[i].v >= e.v})
    IN  SubSeq(sorted, 1, n) \o <<e>> \o SubSeq(sorted, n + 1, Len(sorted))

\* sorted(self.uploaded_chunks.items(), key=lambda item: item[1], reverse=True)
RECURSIVE sorted_peers(_)
sorted_peers(items) ==
    IF items = <<>> THEN <<>>
    ELSE SortedInsert(sorted_peers(SubSeq(items, 1, Len(items) - 1)), items[Len(items)])

\* [peer[0] for peer in sorted_peers[:4]]
TopPeersOf(ledger) ==
    LET s == sorted_peers(ledger)
        n == IF Len(s) < TopN THEN Len(s) ELSE TopN
    IN  [i \in 1..n |-> s[i].k]

\* [peer for peer in self.tracker_peers if peer not in self.top_peers]
non_top_peers(known, top) ==
    LET keys == [i \in 1..Len(known) |-> known[i].k]
    IN  SelectSeq(keys, LAMBDA a : \A i \in 1..Len(top) : top[i] # a)

outside_choke == <<pm_vars, tracker_vars, main_vars, peer_chunks, tracker_peers,
                   uploaded_chunks, listener_vars>>

\* update_top_peers; random.choice is any element of the list.
update_top_peers ==
    LET top == TopPeersOf(uploaded_chunks)
        non_top == non_top_peers(tracker_peers, top)
    IN  /\ top_peers' = top
        /\ optimistic_peer' \in
              (IF non_top = <<>> THEN {NoAddr}
               ELSE {non_top[i] : i \in 1..Len(non_top)})
        /\ refreshed' = TRUE
        /\ UNCHANGED outside_choke

\* The addresses of the ranking test (bare names, in the ledger and in the
\* directory alike).
ChokeAddrs == << <<"A">>, <<"B">>, <<"C">>, <<"D">>, <<"E">> >>

ChokeAddrSet == {ChokeAddrs[i] : i \in 1..Len(ChokeAddrs)}

\* {A:5, B:3, C:8, D:2, E:10}
ExampleLedger ==
    << [k |-> <<"A">>, v |-> 5], [k |-> <<"B">>, v |-> 3], [k |-> <<"C">>, v |-> 8],
       [k |-> <<"D">>, v |-> 2], [k |-> <<"E">>, v |-> 10] >>

\* Ledgers in every insertion order, with counts from 1 to MaxUploads, and the
\* ledger of the example.
ChokeLedgers ==
    {ExampleLedger} \cup
    UNION {{[i \in 1..n |-> [k |-> order[i], v |-> count[i]]] :
               order \in {o \in [1..n -> ChokeAddrSet] :
                             \A i, j \in 1..n : o[i] = o[j] => i = j},
               count \in [1..n -> 1..MaxUploads]} :
           n \in 0..Len(ChokeAddrs)}

\* The directory with the addresses of K, no piece advertised.
ChokeDirectory(K) ==
    LET keys == SelectSeq(ChokeAddrs, LAMBDA a : a \in K)
    IN  [i \in 1..Len(keys) |-> [k |-> keys[i], v |-> <<>>]]

\* A node whose ledger is over its known peers.
InitChoke ==
    /\ PeerInitBut("bare")
    /\ uploaded_chunks \in ChokeLedgers
    /\ \E K \in SUBSET ChokeAddrSet :
          /\ DictKeys(uploaded_chunks) \subseteq K
          /\ tracker_peers = ChokeDirectory(K)

\* ---------------------------------------------------------------- listener
\* The bytes of chunk p of the shared file, and what a peer may receive in
\* answer to a chunk request: a chunk, other bytes, nothing (the connection was
\* closed without a reply), b"CHUNK_NOT_FOUND".
ChunkData == <<"d1", "d2", "d3", "d4">>

FileChunk(p) == ChunkData[p]

NotFoundBytes == "CHUNK_NOT_FOUND"

\* conn.getpeername()[0] of an inbound connection
Hosts == {<<"h1">>, <<"h2">>}

\* What conn.recv(1024).decode() may give to handle_chunk_request.
Requests == {StrOfInt(p) : p \in PieceInputs} \cup {"x", ""}

outside_listener == <<pm_vars, tracker_vars, main_vars, peer_chunks, tracker_peers,
                      top_peers, optimistic_peer, listen_thread>>

\* max_tries of listen_for_requests
max_tries == 20

\* The errno of the OSError a bind to a port in use raises: WSAEADDRINUSE on
\* Windows, EADDRINUSE elsewhere.
Errnos == {10048, 98}

\* listen_for_requests when server_socket.bind succeeds, up to
\* server_socket.listen(5): the port is bound and stored.
Bind ==
    /\ n_pc # "start"
    /\ listen_thread.pc = "bind"
    /\ listen_thread.tries < max_tries
    /\ peer_port = NoPort
    /\ peer_port' = listen_thread.listen_port
    /\ listen_thread' = [listen_thread EXCEPT !.pc = "listening"]
    /\ UNCHANGED <<pm_vars, tracker_vars, role, n_pc, n_loc, total_chunks, has_pm,
                   received_chunks, disk, requested, peer_chunks, tracker_peers,
                   uploaded_chunks, choke_vars, l_pc, l_loc>>

\* server_socket.bind raises OSError(errno): the next port is tried if errno is
\* 10048, the exception leaves the thread otherwise.
BindConflict(errno) ==
    /\ n_pc # "start"
    /\ listen_thread.pc = "bind"
    /\ listen_thread.tries < max_tries
    /\ listen_thread' =
          (IF errno = 10048
           THEN [listen_thread EXCEPT !.listen_port = @ + 1, !.tries = @ + 1]
           ELSE [listen_thread EXCEPT !.pc = "raised"])
    /\ UNCHANGED <<pm_vars, tracker_vars, main_vars, peer_chunks, tracker_peers,
                   uploaded_chunks, choke_vars, l_pc, l_loc>>

\* The else of the while loop: sys.exit(1) raises SystemExit in the listener's
\* thread, which ends that thread.
BindExit ==
    /\ n_pc # "start"
    /\ listen_thread.pc = "bind"
    /\ listen_thread.tries >= max_tries
    /\ listen_thread' = [listen_thread EXCEPT !.pc = "exited"]
    /\ UNCHANGED <<pm_vars, tracker_vars, main_vars, peer_chunks, tracker_peers,
                   uploaded_chunks, choke_vars, l_pc, l_loc>>

\* server_socket.accept() and the start of the handler's thread
LAccept(c, host) ==
    /\ peer_port # NoPort
    /\ l_pc[c] = "idle"
    /\ l_pc' = [l_pc EXCEPT ![c] = "recv"]
    /\ l_loc' = [l_loc EXCEPT ![c].peer_ip = host]
    /\ UNCHANGED <<uploaded_chunks, refreshed>>
    /\ UNCHANGED outside_listener

\* chunk_number = int(conn.recv(1024).decode()); a text that is no integer
\* raises, and the handler goes to its finally clause.
LRecv(c, req) ==
    /\ l_pc[c] = "recv"
    /\ IF IsIntStr(req)
       THEN /\ l_loc' = [l_loc EXCEPT ![c].chunk_number = IntOfStr(req)]
            /\ l_pc' = [l_pc EXCEPT ![c] = "check"]
       ELSE /\ l_pc' = [l_pc EXCEPT ![c] = "close"]
            /\ UNCHANGED l_loc
    /\ UNCHANGED <<uploaded_chunks, refreshed>>
    /\ UNCHANGED outside_listener

\* Variant: a requester outside top_peers and other than optimistic_peer is
\* choked, it is answered as if the chunk were not held.
LCheck_Choking(c) ==
    /\ l_pc[c] = "check"
    /\ l_loc' = [l_loc EXCEPT ![c].held = DictHas(peer_chunks, l_loc[c].chunk_number)]
    /\ l_pc' = [l_pc EXCEPT ![c] =
                   IF /\ DictHas(peer_chunks, l_loc[c].chunk_number)
                      /\ \/ \E i \in 1..Len(top_peers) : top_peers[i] = l_loc[c].peer_ip
                         \/ optimistic_peer = l_loc[c].peer_ip
                   THEN "send_chunk"
                   ELSE "send_not_found"]
    /\ UNCHANGED <<uploaded_chunks, refreshed>>
    /\ UNCHANGED outside_listener

\* if chunk_number in self.peer_chunks
LCheck(c) ==
    /\ l_pc[c] = "check"
    /\ l_loc' = [l_loc EXCEPT ![c].held = DictHas(peer_chunks, l_loc[c].chunk_number)]
    /\ l_pc' = [l_pc EXCEPT ![c] =
                   IF DictHas(peer_chunks, l_loc[c].chunk_number) THEN "send_chunk"
                   ELSE "send_not_found"]
    /\ UNCHANGED <<uploaded_chunks, refreshed>>
    /\ UNCHANGED outside_listener

\* Variant: the first stored chunk, whatever number was asked for.
ChunkPayload_First(chunks, chunk_number) == chunks[1].v

\* self.peer_chunks[chunk_number]
ChunkPayload(chunks, chunk_number) == DictGet(chunks, chunk_number)

\* conn.send(self.peer_chunks[chunk_number]); a failed send raises.
LSendChunk(c, ok) ==
    /\ l_pc[c] = "send_chunk"
    /\ IF ok
       THEN /\ l_loc' = [l_loc EXCEPT
                   ![c].replied = TRUE,
                   ![c].reply = ChunkPayload(peer_chunks, l_loc[c].chunk_number)]
            /\ l_pc' = [l_pc EXCEPT ![c] = "ledger_read"]
       ELSE /\ l_pc' = [l_pc EXCEPT ![c] = "close"]
            /\ UNCHANGED l_loc
    /\ UNCHANGED <<uploaded_chunks, refreshed>>
    /\ UNCHANGED outside_listener

\* peer_ip = conn.getpeername()[0] (it raises on a connection that is gone) and
\* the read of self.uploaded_chunks.get(peer_ip, 0)
LLedgerRead(c, ok) ==
    /\ l_pc[c] = "ledger_read"
    /\ IF ok
       THEN /\ l_loc' = [l_loc EXCEPT
                   ![c].count = DictGetOr(uploaded_chunks, l_loc[c].peer_ip, 0)]
            /\ l_pc' = [l_pc EXCEPT ![c] = "ledger_write"]
       ELSE /\ l_pc' = [l_pc EXCEPT ![c] = "close"]
            /\ UNCHANGED l_loc
    /\ UNCHANGED <<uploaded_chunks, refreshed>>
    /\ UNCHANGED outside_listener

\* self.uploaded_chunks[peer_ip] = ... + 1
LLedgerWrite(c) ==
    /\ l_pc[c] = "ledger_write"
    /\ uploaded_chunks' = DictSet(uploaded_chunks, l_loc[c].peer_ip, l_loc[c].count + 1)
    /\ l_loc' = [l_loc EXCEPT ![c].wrote = TRUE]
    /\ l_pc' = [l_pc EXCEPT ![c] = "close"]
    /\ refreshed' = FALSE
    /\ UNCHANGED outside_listener

\* conn.send(b"CHUNK_NOT_FOUND")
LSendNotFound(c, ok) ==
    /\ l_pc[c] = "send_not_found"
    /\ IF ok
       THEN l_loc' = [l_loc EXCEPT ![c].replied = TRUE, ![c].reply = NotFoundBytes]
       ELSE UNCHANGED l_loc
    /\ l_pc' = [l_pc EXCEPT ![c] = "close"]
    /\ UNCHANGED <<uploaded_chunks, refreshed>>
    /\ UNCHANGED outside_listener

\* finally: conn.close()
LClose(c) ==
    /\ l_pc[c] = "close"
    /\ l_pc' = [l_pc EXCEPT ![c] = "done"]
    /\ UNCHANGED <<l_loc, uploaded_chunks, refreshed>>
    /\ UNCHANGED outside_listener

\* ------------------------------------------------------ Peer.start's thread
\* The addresses a directory listing may hold: this node's own (every node
\* listens on the default port of its host), another node's, and a bare host.
OwnAddr == <<"h1", StrOfInt(ListenPort)>>

OtherAddr == <<"h2", StrOfInt(ListenPort)>>

DirChunkLists == {<<>>, <<1>>, <<TotalPieces>>, <<1, TotalPieces>>}

\* The records a tracker table may hold: this node's, with the chunks it
\* registered (own), and another node's.
DirEntries(own) ==
    {[k |-> OwnAddr, v |-> own]} \cup {[k |-> OtherAddr, v |-> L] : L \in DirChunkLists}

\* Tracker tables of at most two records.
DirTables(own) ==
    {<<>>} \cup {<<e>> : e \in DirEntries(own)}
      \cup {t \in {<<e, f>> : e, f \in DirEntries(own)} : t[1].k # t[2].k}

\* An acknowledgment received with a listing whose entries are a bare host that
\* advertises an index beyond the file and a list that is no number.
JunkListing ==
    << << <<"PEER_ADDED">> >>,
       << <<"h3">>, JoinChunks(<<1, TotalPieces + 1>>) >>,
       << OtherAddr, <<"x">> >> >>

\* What tracker_socket.recv(...).decode().split("\n") may give.
Listings(own) ==
    {NoPeersText, JunkListing} \cup {FormatListing(t) : t \in DirTables(own)}

\* The listings of every table, whatever this node registered.
AllListings ==
    UNION {Listings(own) :
           own \in UNION {{s \in [1..n -> 1..TotalPieces] :
                               \A i, j \in 1..n : s[i] = s[j] => i = j} :
                          n \in 0..TotalPieces}}

\* list(self.peer_chunks.keys())
OwnChunks == [i \in 1..Len(peer_chunks) |-> peer_chunks[i].k]

\* if p / if peer_info: the line is not empty
LineGiven(line) == line # << <<"">> >>

\* Variant: without the test p.endswith(': '), so that a peer listed with no
\* chunks counts as a seeder.
IsFirstSeeder_NoEmptyLists(peer_list) ==
    \A i \in 1..Len(peer_list) :
        LineGiven(peer_list[i]) => Len(peer_list[i]) = 1

\* all((': ' not in p or p.endswith(': ')) for p in peer_list if p)
IsFirstSeeder(peer_list) ==
    \A i \in 1..Len(peer_list) :
        LineGiven(peer_list[i]) =>
            Len(peer_list[i]) = 1 \/ peer_list[i][Len(peer_list[i])] = <<"">>

\* peer_addr, chunks = peer_info.split(": ") and list(map(int, chunks.split(",")))
\* raise nothing
LineParses(line) ==
    /\ Len(line) = 2
    /\ line[2] # <<"">> => \A j \in 1..Len(line[2]) : IsIntStr(line[2][j])

\* chunk_list
LineChunks(line) ==
    IF line[2] = <<"">> THEN <<>>
    ELSE [j \in 1..Len(line[2]) |-> IntOfStr(line[2][j])]

SetMax(S) == IF S = {} THEN 0 ELSE CHOOSE m \in S : \A x \in S : x <= m

\* max_chunk of register_with_tracker
MaxChunk(peer_list) ==
    SetMax(UNION {{LineChunks(peer_list[i])[j] : j \in 1..Len(LineChunks(peer_list[i]))} :
                  i \in {n \in 1..Len(peer_list) :
                            LineGiven(peer_list[n]) /\ LineParses(peer_list[n])}})

\* The number of times piece p stands in the chunk lists of the lines of
\* peer_list that the second loop of register_with_tracker stores.
Appearances(peer_list, p) ==
    Cardinality({ij \in (1..Len(peer_list)) \X (1..TotalPieces + 1) :
                    /\ LineGiven(peer_list[ij[1]])
                    /\ LineParses(peer_list[ij[1]])
                    /\ ij[2] <= Len(LineChunks(peer_list[ij[1]]))
                    /\ LineChunks(peer_list[ij[1]])[ij[2]] = p})

\* Variant: break where the code has continue, the first line that does not
\* parse ends the loop.
RECURSIVE StoreListing_StopAtMalformed(_, _, _, _, _)
StoreListing_StopAtMalformed(peer_list, i, known, avail, pm) ==
    IF i > Len(peer_list) THEN [known |-> known, avail |-> avail]
    ELSE IF ~LineGiven(peer_list[i])
         THEN StoreListing_StopAtMalformed(peer_list, i + 1, known, avail, pm)
    ELSE IF LineParses(peer_list[i])
         THEN StoreListing_StopAtMalformed(peer_list, i + 1,
                  DictSet(known, peer_list[i][1], LineChunks(peer_list[i])),
                  IF pm THEN UpdateAvail(avail, LineChunks(peer_list[i])) ELSE avail,
                  pm)
         ELSE [known |-> known, avail |-> avail]

\* The second loop of register_with_tracker from line i on: known is
\* self.tracker_peers, avail the piece manager's available_pieces, pm whether
\* there is a piece manager.
RECURSIVE StoreListing(_, _, _, _, _)
StoreListing(peer_list, i, known, avail, pm) ==
    IF i > Len(peer_list) THEN [known |-> known, avail |-> avail]
    ELSE IF LineGiven(peer_list[i]) /\ LineParses(peer_list[i])
         THEN StoreListing(peer_list, i + 1,
                           DictSet(known, peer_list[i][1], LineChunks(peer_list[i])),
                           IF pm THEN UpdateAvail(avail, LineChunks(peer_list[i]))
                           ELSE avail,
                           pm)
         ELSE StoreListing(peer_list, i + 1, known, avail, pm)

\* What a step of Peer.start's thread leaves alone.
outside_main == <<tracker_vars, role, peer_port, uploaded_chunks, choke_vars,
                  listener_vars>>

\* listening_thread.start()
StartListening ==
    /\ n_pc = "start"
    /\ n_pc' = "wait_port"
    /\ UNCHANGED <<pm_vars, n_loc, total_chunks, has_pm, received_chunks, disk,
                   requested, peer_chunks, tracker_peers>>
    /\ UNCHANGED outside_main

\* while self.peer_port is None: sleep(0.1), then if self.file_to_share
WaitPort ==
    /\ n_pc = "wait_port"
    /\ peer_port # NoPort
    /\ n_pc' = (IF role = "seeder" THEN "prepare" ELSE "register")
    /\ UNCHANGED <<pm_vars, n_loc, total_chunks, has_pm, received_chunks, disk,
                   requested, peer_chunks, tracker_peers>>
    /\ UNCHANGED outside_main

\* random.sample(range(total), n), as chunk numbers (index + 1)
RandomSamples(total, n) ==
    {s \in [1..n -> 1..total] : \A i, j \in 1..n : s[i] = s[j] => i = j}

\* prepare_file_chunks up to the choice of the chunks to share; ok is whether
\* the query of the tracker went through.
PrepareChoose(ok, peer_list) ==
    /\ n_pc = "prepare"
    /\ peer_list \in Listings(OwnChunks)
    /\ total_chunks' = TotalPieces
    /\ has_pm' = TRUE
    /\ available_pieces' = <<>>
    /\ missing_pieces' = 1..TotalPieces
    /\ IF ok /\ IsFirstSeeder(peer_list)
       THEN n_loc' = [n_loc EXCEPT !.to_add = [i \in 1..TotalPieces |-> i],
                                   !.queried = TRUE,
                                   !.peer_list = peer_list]
       ELSE \E s \in RandomSamples(TotalPieces,
                                   IF TotalPieces \div 2 < 1 THEN 1
                                   ELSE TotalPieces \div 2) :
                n_loc' = [n_loc EXCEPT !.to_add = s,
                                       !.queried = ok,
                                       !.peer_list = IF ok THEN peer_list ELSE <<>>]
    /\ n_pc' = "prepare_add"
    /\ UNCHANGED <<rarest_piece, pm_marked, received_chunks, disk, requested,
                   peer_chunks, tracker_peers>>
    /\ UNCHANGED outside_main

\* self.peer_chunks[chunk_number] = chunk, one chunk of the choice
PrepareAdd ==
    /\ n_pc = "prepare_add"
    /\ peer_chunks' = DictSet(peer_chunks, Head(n_loc.to_add),
                              FileChunk(Head(n_loc.to_add)))
    /\ n_loc' = [n_loc EXCEPT !.to_add = Tail(n_loc.to_add)]
    /\ n_pc' = (IF Tail(n_loc.to_add) = <<>> THEN "prepared" ELSE "prepare_add")
    /\ UNCHANGED <<pm_vars, total_chunks, has_pm, received_chunks, disk, requested,
                   tracker_peers>>
    /\ UNCHANGED outside_main

\* prepare_file_chunks returns to Peer.start, which goes on to
\* register_with_tracker; the locals are gone.
PrepareReturn ==
    /\ n_pc = "prepared"
    /\ n_pc' = "register"
    /\ n_loc' = NoNLoc
    /\ UNCHANGED <<pm_vars, total_chunks, has_pm, received_chunks, disk, requested,
                   peer_chunks, tracker_peers>>
    /\ UNCHANGED outside_main

\* register_with_tracker; ok is whether the exchange with the tracker went
\* through (sys.exit(1) otherwise), peer_list what the second recv gave. The
\* availability counts are kept within MaxCount.
Register(ok, peer_list) ==
    /\ n_pc = "register"
    /\ peer_list \in Listings(OwnChunks)
    /\ IF ~ok
       THEN /\ n_pc' = "exited"
            /\ UNCHANGED <<available_pieces, missing_pieces, total_chunks, has_pm,
                           tracker_peers, n_loc>>
       ELSE LET fresh == role # "seeder" /\ total_chunks = 0 /\ MaxChunk(peer_list) > 0
                stored == StoreListing(peer_list, 1, tracker_peers,
                                       IF fresh THEN <<>> ELSE available_pieces,
                                       has_pm \/ fresh)
            IN  /\ CountsBounded(stored.avail)
                /\ total_chunks' = (IF fresh THEN MaxChunk(peer_list) ELSE total_chunks)
                /\ has_pm' = (has_pm \/ fresh)
                /\ missing_pieces' = (IF fresh THEN 1..MaxChunk(peer_list)
                                      ELSE missing_pieces)
                /\ available_pieces' = stored.avail
                /\ tracker_peers' = stored.known
                /\ n_loc' = [n_loc EXCEPT
                       !.peer_list = peer_list,
                       !.seen = [p \in PieceInputs |-> @[p] + Appearances(peer_list, p)]]
                /\ n_pc' = "wait"
    /\ UNCHANGED <<rarest_piece, pm_marked, received_chunks, disk, requested,
                   peer_chunks>>
    /\ UNCHANGED outside_main

\* Variant: wait_for_peers returns after the first registration, whatever the
\* number of known peers.
WaitPeers_NoWait ==
    /\ n_pc = "wait"
    /\ n_pc' = "dl_test"
    /\ n_loc' = [n_loc EXCEPT !.peer_list = <<>>]
    /\ UNCHANGED <<pm_vars, total_chunks, has_pm, received_chunks, disk,
                   requested, peer_chunks, tracker_peers>>
    /\ UNCHANGED outside_main

\* wait_for_peers: the test of its loop; register_with_tracker has returned,
\* its locals are gone.
WaitPeers ==
    /\ n_pc = "wait"
    /\ n_pc' = (IF Len(tracker_peers) < MIN_PEERS_REQUIRED THEN "register"
                ELSE "dl_test")
    /\ n_loc' = [n_loc EXCEPT !.peer_list = <<>>]
    /\ UNCHANGED <<pm_vars, total_chunks, has_pm, received_chunks, disk,
                   requested, peer_chunks, tracker_peers>>
    /\ UNCHANGED outside_main

\* while len(self.received_chunks) < self.total_chunks
DlTest ==
    /\ n_pc = "dl_test"
    /\ n_pc' = (IF Cardinality(received_chunks) < total_chunks THEN "dl_rarest"
                ELSE "returned")
    /\ UNCHANGED <<pm_vars, n_loc, total_chunks, has_pm, received_chunks, disk,
                   requested, peer_chunks, tracker_peers>>
    /\ UNCHANGED outside_main

\* if rarest_piece: None and 0 are false
Truthy(piece) == piece # None /\ piece # 0

\* rarest_piece = self.piece_manager.get_rarest_piece() and the test on it
DlRarest ==
    /\ n_pc = "dl_rarest"
    /\ rarest_piece' = get_rarest_piece
    /\ n_loc' = [n_loc EXCEPT !.rarest = get_rarest_piece, !.iter = 1]
    /\ n_pc' = (IF Truthy(get_rarest_piece) THEN "dl_scan" ELSE "dl_check")
    /\ UNCHANGED <<available_pieces, missing_pieces, pm_marked, total_chunks, has_pm,
                   received_chunks, disk, requested, peer_chunks, tracker_peers>>
    /\ UNCHANGED outside_main

\* Variant: only the first index of a peer's list is looked at.
Advertises_FirstOnly(entry, piece) == entry.v # <<>> /\ entry.v[1] = piece

\* rarest_piece in self.tracker_peers[peer_addr]
Advertises(entry, piece) == \E j \in 1..Len(entry.v) : entry.v[j] = piece

\* Variant: a peer that does not advertise the piece is dropped from the
\* directory.
DlNext_Forget ==
    /\ n_pc = "dl_scan"
    /\ IF n_loc.iter > Len(tracker_peers)
       THEN /\ n_pc' = "dl_check"
            /\ UNCHANGED <<n_loc, tracker_peers>>
       ELSE /\ ~Advertises(tracker_peers[n_loc.iter], n_loc.rarest)
            /\ tracker_peers' = DictDel(tracker_peers, tracker_peers[n_loc.iter].k)
            /\ UNCHANGED <<n_loc, n_pc>>
    /\ UNCHANGED <<pm_vars, total_chunks, has_pm, received_chunks, disk, requested,
                   peer_chunks>>
    /\ UNCHANGED outside_main

\* for peer_addr in self.tracker_peers: the end of the directory, or a peer
\* that does not advertise the piece
DlNext ==
    /\ n_pc = "dl_scan"
    /\ IF n_loc.iter > Len(tracker_peers)
       THEN /\ n_pc' = "dl_check"
            /\ UNCHANGED n_loc
       ELSE /\ ~Advertises(tracker_peers[n_loc.iter], n_loc.rarest)
            /\ n_loc' = [n_loc EXCEPT !.iter = n_loc.iter + 1]
            /\ UNCHANGED n_pc
    /\ UNCHANGED <<pm_vars, total_chunks, has_pm, received_chunks, disk, requested,
                   peer_chunks, tracker_peers>>
    /\ UNCHANGED outside_main

\* peer_ip, peer_port = peer_addr.split(":") and int(peer_port) raise nothing
AddrSplits(peer_addr) == Len(peer_addr) = 2 /\ IsIntStr(peer_addr[2])

\* What peer_socket.recv(CHUNK_SIZE) may give: a chunk of the file, other bytes,
\* nothing, and the bytes b"CHUNK_NOT_FOUND".
Replies == {FileChunk(p) : p \in 1..TotalPieces} \cup {"bad", "", NotFoundBytes}

\* request_chunk_from_peer returns True: nothing raised (ok) and the reply is
\* not b"CHUNK_NOT_FOUND".
RequestSucceeds(peer_addr, chunk_number, ok, chunk_data) ==
    AddrSplits(peer_addr) /\ ok /\ chunk_data # NotFoundBytes

\* Variant: no break after a success, the scan of the directory goes on.
DlRequest_NoBreak(ok, chunk_data) ==
    /\ n_pc = "dl_scan"
    /\ n_loc.iter <= Len(tracker_peers)
    /\ Advertises(tracker_peers[n_loc.iter], n_loc.rarest)
    /\ LET peer_addr == tracker_peers[n_loc.iter].k
       IN  /\ requested' = (IF AddrSplits(peer_addr) /\ ok
                            THEN requested \cup {[to |-> peer_addr, piece |-> n_loc.rarest]}
                            ELSE requested)
           /\ IF RequestSucceeds(peer_addr, n_loc.rarest, ok, chunk_data)
              THEN /\ received_chunks' = received_chunks \cup {n_loc.rarest}
                   /\ missing_pieces' = MarkCompleteOf(missing_pieces, n_loc.rarest)
                   /\ pm_marked' = pm_marked \cup {n_loc.rarest}
                   /\ disk' = DictSet(disk, n_loc.rarest, chunk_data)
                   /\ n_pc' = "dl_scan"
                   /\ n_loc' = [n_loc EXCEPT !.iter = n_loc.iter + 1,
                                              !.chunk_data = chunk_data,
                                              !.success = TRUE]
              ELSE /\ n_loc' = [n_loc EXCEPT
                          !.iter = n_loc.iter + 1,
                          !.chunk_data = IF AddrSplits(peer_addr) /\ ok THEN chunk_data
                                         ELSE "",
                          !.success = FALSE]
                   /\ UNCHANGED <<received_chunks, missing_pieces, pm_marked, disk, n_pc>>
    /\ UNCHANGED <<available_pieces, rarest_piece, total_chunks, has_pm, peer_chunks,
                   tracker_peers>>
    /\ UNCHANGED outside_main

\* request_chunk_from_peer on a peer that advertises the piece, and what
\* download_chunks does with the result.
DlRequest(ok, chunk_data) ==
    /\ n_pc = "dl_scan"
    /\ n_loc.iter <= Len(tracker_peers)
    /\ Advertises(tracker_peers[n_loc.iter], n_loc.rarest)
    /\ LET peer_addr == tracker_peers[n_loc.iter].k
       IN  /\ requested' = (IF AddrSplits(peer_addr) /\ ok
                            THEN requested \cup {[to |-> peer_addr, piece |-> n_loc.rarest]}
                            ELSE requested)
           /\ IF RequestSucceeds(peer_addr, n_loc.rarest, ok, chunk_data)
              THEN /\ received_chunks' = received_chunks \cup {n_loc.rarest}
                   /\ missing_pieces' = MarkCompleteOf(missing_pieces, n_loc.rarest)
                   /\ pm_marked' = pm_marked \cup {n_loc.rarest}
                   /\ disk' = DictSet(disk, n_loc.rarest, chunk_data)
                   /\ n_pc' = "dl_check"
                   /\ n_loc' = [n_loc EXCEPT !.chunk_data = chunk_data,
                                              !.success = TRUE]
              ELSE /\ n_loc' = [n_loc EXCEPT
                          !.iter = n_loc.iter + 1,
                          !.chunk_data = IF AddrSplits(peer_addr) /\ ok THEN chunk_data
                                         ELSE "",
                          !.success = FALSE]
                   /\ UNCHANGED <<received_chunks, missing_pieces, pm_marked, disk, n_pc>>
    /\ UNCHANGED <<available_pieces, rarest_piece, total_chunks, has_pm, peer_chunks,
                   tracker_peers>>
    /\ UNCHANGED outside_main

\* if len(self.received_chunks) == self.total_chunks: reconstruct and break,
\* else sleep(5)
DlCheck ==
    /\ n_pc = "dl_check"
    /\ n_pc' = (IF Cardinality(received_chunks) = total_chunks THEN "finished"
                ELSE "dl_test")
    /\ UNCHANGED <<pm_vars, n_loc, total_chunks, has_pm, received_chunks, disk,
                   requested, peer_chunks, tracker_peers>>
    /\ UNCHANGED outside_main

\* ----------------------------------------------------------------- hashing
\* calculate_sha1: the digest of a payload, one digest per payload.
calculate_sha1(data) == <<"sha1", data>>

verify_chunk(chunk_data, expected_hash) == calculate_sha1(chunk_data) = expected_hash

\* meta['piece_hashes'], indexed by chunk number
expected_hashes == [p \in 1..TotalPieces |-> calculate_sha1(FileChunk(p))]

InitPieceManager ==
    /\ PieceManagerInit(TotalPieces)
    /\ rarest_piece = None
    /\ pm_marked = {}

InitPM == InitPieceManager /\ InitTracker /\ PeerInit("leecher")

NextPM ==
    \/ \E chunk_list \in ChunkLists : update_available_pieces(chunk_list)
    \/ \E p \in PieceInputs : mark_piece_complete(p)
    \/ CallGetRarestPiece

SpecPM == InitPM /\ [][NextPM]_vars

SpecTracker == InitPM /\ [][NextTracker]_vars

\* A node just constructed in one of the given roles; a leecher has its piece
\* manager from the start.
InitNode(roles) ==
    /\ \E r \in roles :
          /\ PeerInit(r)
          /\ IF r = "leecher" THEN PieceManagerInit(TotalPieces)
             ELSE available_pieces = <<>> /\ missing_pieces = {}
    /\ rarest_piece = None
    /\ pm_marked = {}
    /\ InitTracker

\* The listener of a node and the threads that handle its inbound connections,
\* while Peer.start prepares the chunks to share.
InitListener == InitNode({"seeder", "leecher"})

NextListener ==
    \/ StartListening
    \/ Bind
    \/ WaitPort
    \/ \E ok \in BOOLEAN, peer_list \in AllListings : PrepareChoose(ok, peer_list)
    \/ PrepareAdd
    \/ PrepareReturn
    \/ \E c \in InConns :
          \/ \E host \in Hosts : LAccept(c, host)
          \/ \E req \in Requests : LRecv(c, req)
          \/ LCheck(c)
          \/ \E ok \in BOOLEAN : LSendChunk(c, ok)
          \/ \E ok \in BOOLEAN : LLedgerRead(c, ok)
          \/ LLedgerWrite(c)
          \/ \E ok \in BOOLEAN : LSendNotFound(c, ok)
          \/ LClose(c)

SpecListener == InitListener /\ [][NextListener]_vars

\* A first seeder that has bound its port and stored every chunk of its file
\* (prepare_file_chunks has returned), before it registers.
InitServing ==
    /\ role = "seeder"
    /\ peer_port = ListenPort
    /\ n_pc = "register"
    /\ n_loc = NoNLoc
    /\ total_chunks = TotalPieces
    /\ has_pm = TRUE
    /\ peer_chunks = [p \in 1..TotalPieces |-> [k |-> p, v |-> FileChunk(p)]]
    /\ received_chunks = {}
    /\ disk = <<>>
    /\ requested = {}
    /\ tracker_peers = <<>>
    /\ uploaded_chunks = <<>>
    /\ top_peers = <<>>
    /\ optimistic_peer = NoAddr
    /\ refreshed = FALSE
    /\ l_pc = [c \in Handlers |-> "idle"]
    /\ l_loc = [c \in Handlers |-> NoLLoc]
    /\ listen_thread = [pc |-> "listening", listen_port |-> ListenPort, tries |-> 0]
    /\ available_pieces = <<>>
    /\ missing_pieces = 1..TotalPieces
    /\ rarest_piece = None
    /\ pm_marked = {}
    /\ InitTracker

\* The handler threads of that seeder's listener, up to NHandlers of them.
NextLedger ==
    \E c \in Handlers :
        \/ \E host \in Hosts : LAccept(c, host)
        \/ \E req \in Requests : LRecv(c, req)
        \/ LCheck(c)
        \/ \E ok \in BOOLEAN : LSendChunk(c, ok)
        \/ \E ok \in BOOLEAN : LLedgerRead(c, ok)
        \/ LLedgerWrite(c)
        \/ \E ok \in BOOLEAN : LSendNotFound(c, ok)
        \/ LClose(c)

SpecLedger == InitServing /\ [][NextLedger]_vars

\* Peer.start's thread from construction to the end of download_chunks.
InitFetch == InitNode({"seeder", "leecher", "bare"})

NextFetch ==
    \/ StartListening
    \/ Bind
    \/ WaitPort
    \/ \E ok \in BOOLEAN, peer_list \in AllListings : PrepareChoose(ok, peer_list)
    \/ PrepareAdd
    \/ PrepareReturn
    \/ \E ok \in BOOLEAN, peer_list \in AllListings : Register(ok, peer_list)
    \/ WaitPeers
    \/ DlTest
    \/ DlRarest
    \/ DlNext
    \/ \E ok \in BOOLEAN, chunk_data \in Replies : DlRequest(ok, chunk_data)
    \/ DlCheck

SpecFetch == InitFetch /\ [][NextFetch]_vars

\* request_chunk_from_peer on a peer that is reachable and serves the piece:
\* its address is one a connection can be made to, nothing raises and the reply
\* is the chunk asked for.
ServedRequest ==
    /\ n_pc = "dl_scan"
    /\ n_loc.iter <= Len(tracker_peers)
    /\ AddrSplits(tracker_peers[n_loc.iter].k)
    /\ DlRequest(TRUE, FileChunk(n_loc.rarest))

\* The seeder of InitServing after its first registration (Register from
\* InitServing), where the tracker's listing was that of any table: it is in
\* wait_for_peers.
InitRegistered ==
    /\ role = "seeder"
    /\ peer_port = ListenPort
    /\ n_pc = "wait"
    /\ total_chunks = TotalPieces
    /\ has_pm = TRUE
    /\ peer_chunks = [p \in 1..TotalPieces |-> [k |-> p, v |-> FileChunk(p)]]
    /\ received_chunks = {}
    /\ disk = <<>>
    /\ requested = {}
    /\ \E t \in DirTables([p \in 1..TotalPieces |-> p]) :
          LET stored == StoreListing(FormatListing(t), 1, <<>>, <<>>, TRUE)
          IN  /\ tracker_peers = stored.known
              /\ available_pieces = stored.avail
              /\ n_loc = [NoNLoc EXCEPT
                     !.peer_list = FormatListing(t),
                     !.seen = [p \in PieceInputs |-> Appearances(FormatListing(t), p)]]
    /\ uploaded_chunks = <<>>
    /\ top_peers = <<>>
    /\ optimistic_peer = NoAddr
    /\ refreshed = FALSE
    /\ l_pc = [c \in Handlers |-> "idle"]
    /\ l_loc = [c \in Handlers |-> NoLLoc]
    /\ listen_thread = [pc |-> "listening", listen_port |-> ListenPort, tries |-> 0]
    /\ missing_pieces = 1..TotalPieces
    /\ rarest_piece = None
    /\ pm_marked = {}
    /\ InitTracker

\* That seeder while it serves inbound connections and its choke engine
\* refreshes the ranking (refresh_top_peers_periodically).
NextAdvisory ==
    \/ \E c \in InConns :
          \/ \E host \in Hosts : LAccept(c, host)
          \/ \E req \in Requests : LRecv(c, req)
          \/ LCheck(c)
          \/ \E ok \in BOOLEAN : LSendChunk(c, ok)
          \/ \E ok \in BOOLEAN : LLedgerRead(c, ok)
          \/ LLedgerWrite(c)
          \/ \E ok \in BOOLEAN : LSendNotFound(c, ok)
          \/ LClose(c)
    \/ update_top_peers

SpecAdvisory == InitRegistered /\ [][NextAdvisory]_vars

\* The seeder of InitRegistered from the last test of wait_for_peers through
\* download_chunks, while another peer registers with the tracker over a connection and the
\* tracker broadcasts the new listing.
NextFrozen ==
    \/ WaitPeers
    \/ DlTest
    \/ DlRarest
    \/ DlNext
    \/ \E ok \in BOOLEAN, chunk_data \in Replies : DlRequest(ok, chunk_data)
    \/ DlCheck
    \/ Accept(1)
    \/ \E data \in TrackerData : Recv(1, data)
    \/ AddParse(1)
    \/ AddSetPeers(1)
    \/ AddSetConn(1)
    \/ \E ok \in BOOLEAN : AddAck(1, ok)
    \/ \E ok \in BOOLEAN : AddError(1, ok)
    \/ BcastCompute(1)
    \/ BcastStart(1)
    \/ \E ok \in BOOLEAN : BcastNext(1, ok)

SpecFrozen == InitRegistered /\ [][NextFrozen]_vars

\* The start of a node whose listener finds ports in use: Peer.start's thread up
\* to download_chunks, and the bind loop of listen_for_requests.
NextBind ==
    \/ StartListening
    \/ Bind
    \/ \E errno \in Errnos : BindConflict(errno)
    \/ BindExit
    \/ WaitPort
    \/ \E ok \in BOOLEAN, peer_list \in AllListings : PrepareChoose(ok, peer_list)
    \/ PrepareAdd
    \/ PrepareReturn
    \/ \E ok \in BOOLEAN, peer_list \in AllListings : Register(ok, peer_list)
    \/ WaitPeers

SpecBind == InitFetch /\ [][NextBind]_vars

\* Peer.start's thread under fair scheduling: the thread is not suspended for
\* ever in download_chunks, and a request that is made again and again to peers
\* that serve the piece is served at last.
SpecFetchFair ==
    /\ SpecFetch
    /\ WF_vars(DlTest)
    /\ WF_vars(DlRarest)
    /\ WF_vars(DlNext)
    /\ WF_vars(\E ok \in BOOLEAN, chunk_data \in Replies : DlRequest(ok, chunk_data))
    /\ WF_vars(DlCheck)
    /\ SF_vars(ServedRequest)

\* The choke engine alone, on every ledger and directory of InitChoke.
InitRanking ==
    /\ InitChoke
    /\ available_pieces = <<>>
    /\ missing_pieces = {}
    /\ rarest_piece = None
    /\ pm_marked = {}
    /\ InitTracker

NextChoke == update_top_peers

SpecChoke == InitRanking /\ [][NextChoke]_vars

\* --------------------------------------------------- PieceManager: claims
AvailCount(p) == DictGetOr(available_pieces, p, 0)

\* C1: whatever was advertised (indices outside [1,total_pieces] included) and
\* whatever was marked complete, get_rarest_piece returns None or an index that
\* is in missing_pieces at the time of the call.
C1_RarestIsMissingOrNone == get_rarest_piece \in missing_pieces \cup {None}

\* An index outside [1,total_pieces] is advertised, a piece was marked complete,
\* and the call just made returned a missing index.
C1_Witness ==
    /\ \E i \in 1..Len(available_pieces) : available_pieces[i].k \notin 1..TotalPieces
    /\ pm_marked # {}
    /\ rarest_piece = get_rarest_piece
    /\ rarest_piece \in missing_pieces

\* C2: a piece passed to mark_piece_complete is never returned by a call made
\* afterwards, marking it again changes nothing, and is_complete() is true
\* exactly when every index of [1,total_pieces] has been marked.
C2_MarkedNeverReturned ==
    /\ get_rarest_piece \notin pm_marked
    /\ \A p \in pm_marked : MarkCompleteOf(missing_pieces, p) = missing_pieces
    /\ is_complete <=> (1..TotalPieces) \subseteq pm_marked

\* A marked piece is advertised with a count below that of every missing piece,
\* and the call just made returned a piece that is still missing instead.
C2_Witness ==
    /\ \E p \in pm_marked \cap (1..TotalPieces) :
          /\ DictHas(available_pieces, p)
          /\ \A q \in missing_pieces : AvailCount(p) < AvailCount(q)
    /\ rarest_piece = get_rarest_piece
    /\ rarest_piece \in missing_pieces

\* C3: get_rarest_piece returns a missing index of minimal availability count,
\* a never-advertised missing index counting as 0, and returns None only when
\* missing_pieces is empty.
C3_RarestIsMinimalOverMissing ==
    /\ (get_rarest_piece = None) <=> (missing_pieces = {})
    /\ get_rarest_piece # None =>
          /\ get_rarest_piece \in missing_pieces
          /\ \A q \in missing_pieces : AvailCount(get_rarest_piece) <= AvailCount(q)

\* -------------------------------------------------------- Tracker: claims
\* C4: the peer table holds exactly one record per address that registered (and
\* whose record was not deleted since), and the record's list is the list of the
\* latest registration of that address.
C4_OneRecordLatestList ==
    /\ \A i, j \in 1..Len(peers) : peers[i].k = peers[j].k => i = j
    /\ DictKeys(peers) = {a \in RegAddrs : registry[a] # NotRegistered}
    /\ \A a \in DictKeys(peers) : DictGet(peers, a) = registry[a].chunks

\* An address registered a second time, with a list that differs from the one
\* it replaced.
C4_Witness ==
    /\ Len(peers) = 1
    /\ \E a \in RegAddrs :
          /\ registry[a].old # <<>>
          /\ registry[a].old[1] # registry[a].chunks
          /\ registry[a].chunks # <<>>

C6_ListingOrSentinel ==
    (last_send.kind \in {"reply", "broadcast"} /\ last_send.ok) =>
        IF last_send.listed = <<>> THEN last_send.msg = NoPeersText
        ELSE /\ Len(last_send.msg) = Len(last_send.listed)
             /\ \A i \in 1..Len(last_send.listed) :
                   last_send.msg[i] = <<last_send.listed[i].k,
                                        JoinChunks(last_send.listed[i].v)>>

\* C11: the answer to a REMOVE_PEER from a peer that is registered under the
\* host:port address it gave is PEER_REMOVED, and its record and connection
\* handle are gone; from a peer that is not registered the answer is
\* PEER_NOT_FOUND and the handler has deleted nothing.
C11_RemoveRegisteredPeer ==
    (last_send.kind = "rm_ack" /\ last_send.ok) =>
        IF last_send.own # {}
        THEN /\ last_send.msg = Word("PEER_REMOVED")
             /\ \A a \in last_send.own :
                   ~DictHas(peers, a) /\ ~DictHas(peer_connections, a)
        ELSE /\ last_send.msg = Word("PEER_NOT_FOUND")
             /\ ~last_send.is_new

\* A connection its peer can still read: neither end has closed it and no
\* send on it has failed.
Readable(s) == client_state[s] = "open" /\ s \notin sock_closed

\* c's handler is ending the broadcast that follows a registration it
\* acknowledged.
EndsBroadcastOfRegistration(c) ==
    /\ h_pc[c] = "bcast_iter"
    /\ h_pc'[c] # "bcast_iter"
    /\ h_loc[c].peer_ip # <<>>

\* C12: when the broadcast after a successful registration ends, every address
\* that was registered at the moment of the registration, the registering one
\* included, and that still has a connection it registered over and can read,
\* has been sent the broadcast on such a connection, and the listing sent holds
\* the just-registered address with its new piece list.
C12_BroadcastReachesEveryPeer ==
    [][\A c \in Conns :
          EndsBroadcastOfRegistration(c) =>
              /\ \A a \in h_loc[c].audience :
                    (\E s \in registry[a].conns : Readable(s)) =>
                        \E s \in h_loc[c].sent : s \in registry[a].conns /\ Readable(s)
              /\ \E i \in 1..Len(h_loc[c].listed) :
                    h_loc[c].listed[i] = [k |-> h_loc[c].peer_ip, v |-> h_loc[c].chunks]]_vars

\* C13: a send that fails during a broadcast does not stop it: the handler
\* stays in the loop and moves to the next handle, both tables are left as they
\* were, and while the handle table is the one the loop started on every
\* handle before the cursor has been attempted.
C13_BroadcastSurvivesSendFailure ==
    /\ [](\A c \in Conns :
             (h_pc[c] = "bcast_iter" /\ peer_connections = h_loc[c].targets) =>
                 h_loc[c].sent \cup h_loc[c].failed =
                     {h_loc[c].targets[i].v : i \in 1..(h_loc[c].iter - 1)})
    /\ [][\A c \in Conns :
             (h_pc[c] = "bcast_iter" /\ last_send'.by = c
                /\ last_send'.kind = "broadcast" /\ ~last_send'.ok) =>
                 /\ h_pc'[c] = "bcast_iter"
                 /\ h_loc'[c].iter = h_loc[c].iter + 1
                 /\ peers' = peers
                 /\ peer_connections' = peer_connections]_vars

\* A broadcast has failed on one handle and then sent on the next one.
C13_Witness ==
    \E c \in Conns :
        /\ h_pc[c] = "bcast_iter"
        /\ peer_connections = h_loc[c].targets
        /\ Len(h_loc[c].targets) = 2
        /\ h_loc[c].iter = 3
        /\ h_loc[c].failed = {h_loc[c].targets[1].v}
        /\ h_loc[c].sent = {h_loc[c].targets[2].v}

\* c's handler is computing a listing, for a REQUEST_PEERS reply or for a
\* broadcast.
ComputesListing(c) ==
    /\ h_pc[c] \in {"list", "bcast"}
    /\ h_pc'[c] \in {"list_send", "bcast_start"}

BetweenInsertAndListing(c) ==
    /\ h_pc[c] \in {"add_conn", "add_ack", "bcast"}
    /\ h_loc[c].peer_ip # <<>>

\* C15: between a handler's insert/replace of a record and the listing its
\* broadcast computes, no step of another handler changes the peer table.
C15_InsertAndBroadcastAtomic ==
    [][\A c \in Conns :
          (BetweenInsertAndListing(c) /\ h_pc'[c] = h_pc[c]) => peers' = peers]_vars

\* c's handler is at a read of the shared tables: the listing of a reply or of
\* a broadcast (self.peers), or the start of the broadcast loop
\* (self.peer_connections).
ReadsTables(c) == h_pc[c] \in {"list", "bcast", "bcast_start"}

\* C16: whenever a handler reads the shared tables, the addresses of the peer
\* table are the addresses of the connection-handle table.
C16_TablesNeverPartiallyUpdated ==
    \A c \in Conns :
        ReadsTables(c) => DictKeys(peers) = DictKeys(peer_connections)

\* C10: once the handler of a connection has ended (the connection closed or
\* failed), no address whose latest registration came over that connection has
\* a record or a connection handle.
C10_ClosedConnectionUnregistered ==
    \A c \in Conns : h_pc[c] = "done" =>
        \A a \in RegAddrs : registry[a].conn = c =>
            ~DictHas(peers, a) /\ ~DictHas(peer_connections, a)

\* ------------------------------------------------------ Choke engine: claims
LedgerIndex(a) == CHOOSE i \in 1..Len(uploaded_chunks) : uploaded_chunks[i].k = a

\* a ranks before b: a greater count, or the same count and an earlier
\* insertion into the ledger.
RanksBefore(a, b) ==
    \/ DictGet(uploaded_chunks, a) > DictGet(uploaded_chunks, b)
    \/ /\ DictGet(uploaded_chunks, a) = DictGet(uploaded_chunks, b)
       /\ LedgerIndex(a) < LedgerIndex(b)

TopSet == {top_peers[i] : i \in 1..Len(top_peers)}

\* C7: after update_top_peers on a node whose ledger is over its known peers,
\* top_peers is the at most 4 ledger addresses of highest count, in descending
\* order of count with ties in ledger insertion order, and optimistic_peer is a
\* known peer outside top_peers, or None exactly when there is none; the ledger
\* {A:5,B:3,C:8,D:2,E:10} over A..E gives [E,C,A,B] and D.
C7_ChokeRanking ==
    (refreshed /\ DictKeys(uploaded_chunks) \subseteq DictKeys(tracker_peers)) =>
        /\ Len(top_peers) = (IF Len(uploaded_chunks) < 4 THEN Len(uploaded_chunks) ELSE 4)
        /\ TopSet \subseteq DictKeys(uploaded_chunks)
        /\ \A i, j \in 1..Len(top_peers) :
              i < j => RanksBefore(top_peers[i], top_peers[j])
        /\ \A a \in DictKeys(uploaded_chunks) \ TopSet :
              \A i \in 1..Len(top_peers) : RanksBefore(top_peers[i], a)
        /\ IF DictKeys(tracker_peers) \ TopSet = {} THEN optimistic_peer = NoAddr
           ELSE optimistic_peer \in DictKeys(tracker_peers) \ TopSet
        /\ (uploaded_chunks = ExampleLedger /\ DictKeys(tracker_peers) = ChokeAddrSet) =>
              /\ top_peers = << <<"E">>, <<"C">>, <<"A">>, <<"B">> >>
              /\ optimistic_peer = <<"D">>

\* The ranking of the example ledger was just computed.
C7_Witness ==
    /\ refreshed
    /\ uploaded_chunks = ExampleLedger
    /\ DictKeys(tracker_peers) = ChokeAddrSet
    /\ top_peers = << <<"E">>, <<"C">>, <<"A">>, <<"B">> >>
    /\ optimistic_peer = <<"D">>

\* ----------------------------------------------------------- Node: claims
\* C8: in the fetch loop of a leecher, a payload received for piece p whose
\* digest differs from the expected digest of p is rejected: whenever p has
\* left missing_pieces, is in received_chunks or has a chunk file, the payload
\* kept for p is one that verify_chunk accepts against p's expected digest.
C8_MismatchRejected ==
    role = "leecher" =>
        \A p \in 1..TotalPieces :
            (p \in received_chunks \/ p \notin missing_pieces \/ DictHas(disk, p)) =>
                /\ DictHas(disk, p)
                /\ verify_chunk(DictGet(disk, p), expected_hashes[p])

\* C9: for every request handled by the listener, the reply is the stored
\* payload of n when n was in the served set, otherwise it is CHUNK_NOT_FOUND
\* and the handler does not write the upload ledger; no step of a handler
\* changes the served set.
C9_PayloadOrNotFound ==
    /\ [](\A c \in InConns :
             /\ l_loc[c].replied =>
                   l_loc[c].reply = (IF l_loc[c].held
                                     THEN DictGet(peer_chunks, l_loc[c].chunk_number)
                                     ELSE NotFoundBytes)
             /\ ~l_loc[c].held => ~l_loc[c].wrote)
    /\ [][l_pc' # l_pc => peer_chunks' = peer_chunks]_vars

\* One handler has answered a request with the stored payload and counted it,
\* another has answered CHUNK_NOT_FOUND for a piece the node does not serve.
C9_Witness ==
    \E c, d \in InConns :
        /\ l_pc[c] = "done" /\ l_loc[c].replied /\ l_loc[c].held /\ l_loc[c].wrote
        /\ l_loc[c].reply = FileChunk(l_loc[c].chunk_number)
        /\ l_pc[d] = "done" /\ l_loc[d].replied /\ ~l_loc[d].held
        /\ l_loc[d].reply = NotFoundBytes
        /\ l_loc[d].chunk_number \in 1..TotalPieces
        /\ peer_chunks # <<>>

\* The handlers that have finished after answering host with a payload and
\* executing the ledger assignment of line 306.
ServedHandlers(host) ==
    {c \in InConns : /\ l_pc[c] = "done"
                     /\ l_loc[c].peer_ip = host
                     /\ l_loc[c].replied
                     /\ l_loc[c].reply # NotFoundBytes
                     /\ l_loc[c].wrote}

\* Every started handler has finished.
HandlersFinished == \A c \in InConns : l_pc[c] \in {"idle", "done"}

\* C17: after all the listener's handlers have finished, the ledger entry of
\* each requester is the number of its requests that were answered with a
\* payload: no increment is lost.
C17_NoLostIncrement ==
    HandlersFinished =>
        \A host \in Hosts :
            DictGetOr(uploaded_chunks, host, 0) = Cardinality(ServedHandlers(host))

\* C18: no step makes an entry of the upload ledger smaller, and no step
\* removes an entry.
C18_LedgerMonotone ==
    [][\A host \in Hosts :
          /\ DictGetOr(uploaded_chunks', host, 0) >= DictGetOr(uploaded_chunks, host, 0)
          /\ DictHas(uploaded_chunks, host) => DictHas(uploaded_chunks', host)]_vars

\* The listing names a peer with at least one piece, as register_with_tracker
\* reads its lines.
ShowsPieces(peer_list) ==
    \E i \in 1..Len(peer_list) :
        /\ LineGiven(peer_list[i])
        /\ LineParses(peer_list[i])
        /\ LineChunks(peer_list[i]) # <<>>

\* max(1, self.total_chunks // 2)
SubsetSize == IF total_chunks \div 2 < 1 THEN 1 ELSE total_chunks \div 2

\* C19: when prepare_file_chunks returns, the node serves every piece of the
\* file if the directory it queried showed no peer with any piece; otherwise,
\* and when the tracker could not be queried, it serves exactly
\* max(1, total_pieces div 2) distinct pieces of [1,total_pieces].
C19_FirstSeederServesAll ==
    n_pc = "prepared" =>
        /\ total_chunks = TotalPieces
        /\ IF n_loc.queried /\ ~ShowsPieces(n_loc.peer_list)
           THEN DictKeys(peer_chunks) = 1..total_chunks
           ELSE /\ Cardinality(DictKeys(peer_chunks)) = SubsetSize
                /\ Len(peer_chunks) = SubsetSize
                /\ DictKeys(peer_chunks) \subseteq 1..total_chunks
        /\ \A i \in 1..Len(peer_chunks) : peer_chunks[i].v = FileChunk(peer_chunks[i].k)

\* The tracker listed a peer without pieces and the node serves the whole file.
C19_Witness ==
    /\ n_pc = "prepared"
    /\ n_loc.queried
    /\ n_loc.peer_list = FormatListing(<<[k |-> OtherAddr, v |-> <<>>]>>)
    /\ DictKeys(peer_chunks) = 1..TotalPieces

\* C20: every piece the fetch loop has accepted is in the set the listener
\* serves from (handle_chunk_request answers from self.peer_chunks).
C20_AcceptedPieceIsServed ==
    \A p \in received_chunks : DictHas(peer_chunks, p)

\* download_chunks has ended: its while test failed, or it broke out of the
\* loop.
FetchEnded == n_pc \in {"returned", "finished"}

\* Every index of [1,total_chunks] is in the list of a peer of the directory
\* whose address a request can be sent to.
AllAdvertised ==
    \A p \in 1..total_chunks :
        \E i \in 1..Len(tracker_peers) :
            /\ AddrSplits(tracker_peers[i].k)
            /\ \E j \in 1..Len(tracker_peers[i].v) : tracker_peers[i].v[j] = p

\* C21: the fetch loop never ends while a piece of [1,total_pieces] is not
\* held, and when at the start of the loop every piece is advertised by a peer
\* that serves it, the node eventually holds every piece and the loop ends.
C21_FetchTerminatesWhenComplete ==
    /\ [](FetchEnded => received_chunks = 1..total_chunks)
    /\ (n_pc = "dl_test" /\ AllAdvertised)
          ~> (FetchEnded /\ received_chunks = 1..total_chunks)

\* A node that had to fetch every piece of the file has fetched them and left
\* the loop.
C21_Witness ==
    /\ n_pc = "finished"
    /\ total_chunks = TotalPieces
    /\ AllAdvertised
    /\ received_chunks = 1..TotalPieces

\* Peer.start's thread is in download_chunks.
InFetchLoop == n_pc \in {"dl_test", "dl_rarest", "dl_scan", "dl_check"}

\* C22: while the known peer directory holds fewer than MIN_PEERS_REQUIRED
\* addresses the node has issued no piece request and is not in its fetch
\* loop: it is still in the start sequence up to wait_for_peers.
C22_NoRequestBeforeMinPeers ==
    Len(tracker_peers) < MIN_PEERS_REQUIRED =>
        /\ requested = {}
        /\ ~InFetchLoop
        /\ ~FetchEnded

\* A request has been issued by a node that knows just the minimum of peers.
C22_Witness ==
    /\ requested # {}
    /\ Len(tracker_peers) = MIN_PEERS_REQUIRED

\* The byte sequences a chunk of a shared file can be (file.read(chunk_size)
\* gives any sequence of 1 to CHUNK_SIZE bytes), among those a requester may
\* receive.
Payloads == Replies \ {""}

\* C23: a requester that has received a payload a responder can hold reports
\* success, never 'not found'.
C23_SentinelDistinctFromPayloads ==
    n_loc.chunk_data \in Payloads => n_loc.success

\* A step of connection c's handler.
HandlerStep(c) == h_pc'[c] # h_pc[c] \/ h_loc'[c] # h_loc[c]

\* Connection d's handle_peer thread is running and has not reached its
\* finally clause.
HandlerRunning(d) == h_pc[d] \notin {"idle", "close", "done"} /\ ~h_loc[d].final

\* C24: a step of a handler in which an exception was raised changes the
\* position of no other handler, and leaves in the peer table every record
\* that was registered over the connection of another, running handler.
C24_ErrorEndsOnlyItsHandler ==
    [][\A c \in Conns :
          (h_loc[c].error /\ HandlerStep(c)) =>
              \A d \in Conns \ {c} :
                  /\ h_pc'[d] = h_pc[d]
                  /\ \A a \in RegAddrs :
                        (registry[a].conn = d /\ HandlerRunning(d) /\ DictHas(peers, a))
                            => DictHas(peers', a)]_vars


\* ------------------------------------------------------ listener: bind loop
\* The thread of Peer.start has ended: sys.exit(1) in register_with_tracker,
\* or download_chunks has returned.
StartEnded == n_pc \in {"exited", "returned", "finished"}

\* C25: the listener tries at most 20 successive port numbers on bind conflict,
\* and once all attempts have failed the node has stopped: the thread of
\* Peer.start is not waiting for a listening port and is not registering.
C25_BindFailureStopsNode ==
    /\ listen_thread.tries <= max_tries
    /\ listen_thread.listen_port = ListenPort + listen_thread.tries
    /\ listen_thread.pc = "exited" => StartEnded


\* ---------------------------------------------------- listener: choke state
\* What handle_chunk_request answers to a request for chunk_number when the
\* served set is chunks: a function of these two alone.
ReplyTo(chunks, chunk_number) ==
    IF DictHas(chunks, chunk_number) THEN DictGet(chunks, chunk_number)
    ELSE NotFoundBytes

\* The requester of connection c is neither in top_peers nor optimistic_peer.
Choked(c) ==
    /\ \A i \in 1..Len(top_peers) : top_peers[i] # l_loc[c].peer_ip
    /\ optimistic_peer # l_loc[c].peer_ip

\* C26: the choke state is advisory only: the branch the listener takes and the
\* reply it gives to a request are determined by the served set and the chunk
\* number asked for, whatever top_peers and optimistic_peer are, so two states
\* that differ only in these give the same reply and no requester is refused
\* because of them.
C26_ChokeStateAdvisory ==
    \A c \in Handlers :
        /\ l_pc[c] = "send_chunk" => DictHas(peer_chunks, l_loc[c].chunk_number)
        /\ l_pc[c] = "send_not_found" => ~DictHas(peer_chunks, l_loc[c].chunk_number)
        /\ l_loc[c].replied =>
              l_loc[c].reply = ReplyTo(peer_chunks, l_loc[c].chunk_number)

\* A requester outside a non-empty top_peers, other than the optimistic peer
\* that was chosen, was sent the chunk it asked for.
C26_Witness ==
    \E c \in Handlers :
        /\ top_peers # <<>>
        /\ optimistic_peer # NoAddr
        /\ Choked(c)
        /\ l_loc[c].replied
        /\ l_loc[c].reply = FileChunk(l_loc[c].chunk_number)


\* ------------------------------------------------ Tracker: unparsable ADD_PEER
\* Handler c is in add_peer on a message that does not parse (no address, or a
\* chunk part that is no integer), or in the broadcast_peer_list that follows
\* the ERROR it sent: no address was parsed, so peer_ip is not set.
HandlingUnparsable(c) ==
    \/ h_pc[c] = "add_parse" /\ ~AddPeerParses(h_loc[c].data)
    \/ /\ h_pc[c] \in {"add_error", "bcast", "bcast_start", "bcast_iter"}
       /\ h_loc[c].error
       /\ h_loc[c].peer_ip = <<>>

\* C27: an ADD_PEER message that cannot be parsed is answered ERROR on its own
\* connection, and no step of its handling, from the parse to the end of the
\* broadcast that follows, changes the peer table or the connection-handle
\* table.
C27_UnparsableAddPeerChangesNothing ==
    [][\A c \in Conns :
          (HandlingUnparsable(c) /\ HandlerStep(c)) =>
              /\ peers' = peers
              /\ peer_connections' = peer_connections
              /\ h_pc[c] = "add_parse" => h_pc'[c] = "add_error"
              /\ h_pc[c] = "add_error" =>
                    /\ last_send'.by = c
                    /\ last_send'.to = c
                    /\ last_send'.msg = Word("ERROR")]_vars

\* An unparsable ADD_PEER was answered ERROR while the tables held a record.
C27_Witness ==
    /\ last_send.msg = Word("ERROR")
    /\ last_send.ok
    /\ h_loc[last_send.by].error
    /\ h_loc[last_send.by].peer_ip = <<>>
    /\ peers # <<>>
    /\ peer_connections # <<>>


\* ------------------------------------------------ availability accumulates
\* C28: availability counts only accumulate: once the node has a piece manager,
\* the count of every piece is the number of times the piece stood in a peer's
\* chunk list over all the listings the node has stored (a peer listed in k
\* cycles counts k times), and no step makes a count smaller.
C28_AvailabilityAccumulates ==
    /\ [](has_pm => \A p \in PieceInputs : AvailCount(p) = n_loc.seen[p])
    /\ [][\A p \in PieceInputs :
             DictGetOr(available_pieces', p, 0) >= AvailCount(p)]_vars

\* A second cycle has counted a piece again: its count is above the number of
\* peers known.
C28_Witness ==
    /\ has_pm
    /\ \E p \in PieceInputs :
          /\ AvailCount(p) > Len(tracker_peers)
          /\ AvailCount(p) = n_loc.seen[p]


\* ------------------------------------------------- rarest piece: tie-breaking
\* The positions in available_pieces of the missing pieces of minimal count;
\* a position is the rank of the piece's first advertisement.
TiedMinimal ==
    LET cand == {i \in 1..Len(available_pieces) :
                    available_pieces[i].k \in missing_pieces}
    IN  {i \in cand : \A j \in cand : available_pieces[i].v <= available_pieces[j].v}

FirstTied == CHOOSE i \in TiedMinimal : \A j \in TiedMinimal : i <= j

\* C29: when several missing pieces share the minimal availability count,
\* get_rarest_piece returns the one whose availability entry was created first,
\* and a call that follows a call with no change of the piece manager's state
\* in between returns the same index.
C29_TieGoesToFirstAdvertised ==
    /\ [](TiedMinimal # {} => get_rarest_piece = available_pieces[FirstTied].k)
    /\ [][(/\ rarest_piece = get_rarest_piece
           /\ available_pieces' = available_pieces
           /\ missing_pieces' = missing_pieces) => rarest_piece' = rarest_piece]_vars

\* Two missing pieces are tied at the minimal count, the one advertised first
\* has the greater index, and the call just made returned it.
C29_Witness ==
    /\ Cardinality(TiedMinimal) >= 2
    /\ rarest_piece = available_pieces[FirstTied].k
    /\ \E j \in TiedMinimal : available_pieces[j].k < rarest_piece


\* ------------------------------------------------- directory listing: parse
\* Line i of a listing is an entry the node can parse: an address, ": " and a
\* chunk list that is empty or made of integers.
WellFormed(peer_list, i) == LineGiven(peer_list[i]) /\ LineParses(peer_list[i])

\* The last well-formed line of the listing for the address of line i.
LastLineFor(peer_list, i) ==
    CHOOSE j \in 1..Len(peer_list) :
        /\ WellFormed(peer_list, j)
        /\ peer_list[j][1] = peer_list[i][1]
        /\ \A n \in 1..Len(peer_list) :
              (WellFormed(peer_list, n) /\ peer_list[n][1] = peer_list[i][1]) => n <= j

\* C30: when register_with_tracker has parsed a listing, whatever malformed
\* entries or NO_PEERS line it holds, every well-formed entry of the listing is
\* in the known peer directory with its piece list; so when the listing is the
\* tracker's listing of a table, every record of the table is in the directory,
\* and a directory that was empty before is that table.
C30_MalformedEntriesSkipped ==
    [][(n_pc = "register" /\ n_pc' = "wait") =>
          LET peer_list == n_loc'.peer_list
          IN  /\ \A i \in 1..Len(peer_list) :
                    WellFormed(peer_list, i) =>
                        /\ DictHas(tracker_peers', peer_list[i][1])
                        /\ DictGet(tracker_peers', peer_list[i][1]) =
                              LineChunks(peer_list[LastLineFor(peer_list, i)])
              /\ \A t \in DirTables(OwnChunks) :
                    (t # <<>> /\ peer_list = FormatListing(t)) =>
                        /\ \A j \in 1..Len(t) :
                              /\ DictHas(tracker_peers', t[j].k)
                              /\ DictGet(tracker_peers', t[j].k) = t[j].v
                        /\ tracker_peers = <<>> => tracker_peers' = t]_vars

\* The listing just parsed has a malformed line before a well-formed one and
\* one after it, and the directory holds the well-formed entry with its pieces.
C30_Witness ==
    /\ n_pc = "wait"
    /\ \E i, j, n \in 1..Len(n_loc.peer_list) :
          /\ i < j
          /\ j < n
          /\ ~WellFormed(n_loc.peer_list, i)
          /\ WellFormed(n_loc.peer_list, j)
          /\ ~WellFormed(n_loc.peer_list, n)
          /\ LineChunks(n_loc.peer_list[j]) # <<>>
          /\ DictHas(tracker_peers, n_loc.peer_list[j][1])
          /\ DictGet(tracker_peers, n_loc.peer_list[j][1]) = LineChunks(n_loc.peer_list[j])


\* ------------------------------------------------- fetch: missing and received
\* C31: in every state of a fetching node missing_pieces and received_chunks
\* are disjoint and their union is [1, total_pieces]; once the piece manager
\* exists missing_pieces only shrinks, and an index leaves it in the very step
\* in which the index enters received_chunks.
C31_MissingAndReceivedPartition ==
    /\ [](/\ missing_pieces \cap received_chunks = {}
          /\ missing_pieces \cup received_chunks = 1..total_chunks)
    /\ [][has_pm =>
             /\ missing_pieces' \subseteq missing_pieces
             /\ missing_pieces \ missing_pieces' = received_chunks' \ received_chunks]_vars

\* A piece was received and taken out of missing_pieces while another is still
\* missing.
C31_Witness ==
    /\ n_pc = "dl_check"
    /\ n_loc.success
    /\ n_loc.rarest \in received_chunks
    /\ n_loc.rarest \notin missing_pieces
    /\ missing_pieces # {}


\* ---------------------------------------------------------- seeder: uploads
\* The node holds every piece of the file in peer_chunks.
HoldsEveryPiece ==
    /\ total_chunks > 0
    /\ \A p \in 1..total_chunks : DictHas(peer_chunks, p)

\* C32: a node that holds every piece of the file only uploads, it never issues
\* a piece request to any peer.
C32_SeederNeverRequests == HoldsEveryPiece => requested = {}


\* ------------------------------------------------------ fetch: own address
\* C35: no piece request is sent to the node's own listener address, although
\* the directory holds the node's own entry.
C35_NoRequestToSelf == \A q \in requested : q.to # OwnAddr


\* ------------------------------------------------ Tracker: connection handles
\* C33: once a registration of address a is complete (acknowledged), new or
\* updating, the handle stored for a is the connection the latest registration
\* arrived on, and the handle table never holds a connection the tracker has
\* closed, but for the time its handler takes to remove it in its finally
\* clause.
C33_HandleIsLatestOpenConnection ==
    /\ \A a \in RegAddrs :
          registry[a].acked =>
              /\ DictHas(peer_connections, a)
              /\ DictGet(peer_connections, a) = registry[a].conn
    /\ \A i \in 1..Len(peer_connections) :
          peer_connections[i].v \in sock_closed => h_pc[peer_connections[i].v] # "done"


\* ------------------------------------------------------ fetch: one piece
\* The pieces that were requested and are not received yet.
RequestedNotReceived == {q.piece : q \in requested} \ received_chunks

\* C34: in a fetch cycle the node requests only the piece get_rarest_piece
\* returned, from the peers of its directory that advertise it, in directory
\* order, and stops at the first success; until that piece is obtained no other
\* missing piece is requested.
C34_OnlyRarestRequestedInOrder ==
    /\ [](Cardinality(RequestedNotReceived) <= 1)
    /\ [][requested' # requested =>
             /\ n_pc = "dl_scan"
             /\ rarest_piece = n_loc.rarest
             /\ rarest_piece \in missing_pieces
             /\ Advertises(tracker_peers[n_loc.iter], rarest_piece)
             /\ requested' = requested \cup
                   {[to |-> tracker_peers[n_loc.iter].k, piece |-> rarest_piece]}
             /\ n_loc'.success => n_pc' = "dl_check"]_vars
    /\ [][n_pc = "dl_rarest" => n_loc'.iter = 1]_vars
    /\ [][(n_pc = "dl_scan" /\ n_pc' = "dl_scan") =>
             /\ n_loc'.iter = n_loc.iter + 1
             /\ received_chunks' = received_chunks]_vars
    /\ [][(n_pc = "dl_scan" /\ n_pc' = "dl_check" /\ received_chunks' = received_chunks)
             => n_loc.iter > Len(tracker_peers)]_vars

\* A cycle has ended without the piece it asked for, another missing piece is
\* advertised by a peer that can be reached and was never asked for, and the
\* next cycle is about to start.
C34_Witness ==
    /\ n_pc = "dl_test"
    /\ \E p \in RequestedNotReceived :
          \E p2 \in missing_pieces \ {p} :
              /\ \E i \in 1..Len(tracker_peers) :
                    /\ Advertises(tracker_peers[i], p2)
                    /\ AddrSplits(tracker_peers[i].k)
              /\ \A q \in requested : q.piece # p2


\* ------------------------------------------------- fetch: frozen directory
\* C36: once wait_for_peers has returned, no step changes the known peer
\* directory or the availability counts, whatever the tracker receives and
\* broadcasts while download_chunks runs.
C36_DirectoryFrozenAfterWait ==
    [][(InFetchLoop \/ FetchEnded) =>
          /\ tracker_peers' = tracker_peers
          /\ available_pieces' = available_pieces]_vars

\* While the fetch loop runs and a request has been made, the tracker has just
\* broadcast a listing with an address the node's directory does not hold.
C36_Witness ==
    /\ InFetchLoop
    /\ requested # {}
    /\ last_send.kind = "broadcast"
    /\ last_send.ok
    /\ \E a \in DictKeys(peers) : ~DictHas(tracker_peers, a)


\* ------------------------------------------------ choke engine: address form
\* The host of an address, whether it is host:port or a bare host.
HostOf(addr) == addr[1]

\* C37: the keys of the upload ledger and of the known peer directory have the
\* same address form, and the peer drawn as optimistic_peer is never the same
\* node as a member of top_peers.
C37_OptimisticPeerOutsideTopPeers ==
    /\ \A i \in 1..Len(uploaded_chunks), j \in 1..Len(tracker_peers) :
          Len(uploaded_chunks[i].k) = Len(tracker_peers[j].k)
    /\ optimistic_peer # NoAddr =>
          \A i \in 1..Len(top_peers) : HostOf(top_peers[i]) # HostOf(optimistic_peer)

====
